---- MODULE Spec2Model ----
(***************************************************************************)
(* Task management REST API: the authentication middleware                 *)
(* (server/middleware/auth.js), the Task schema (server/models/Task.js,    *)
(* found in src/server/config/swagger.js) and the /api/tasks routes        *)
(* (server/routes/tasks.js), over a document store.                        *)
(*                                                                         *)
(* JavaScript values are tagged records [t, v]: a value of one type never  *)
(* equals a value of another, as with === and with MongoDB's comparison.   *)
(* Strings are sequences of one-character strings, so that trim, length,   *)
(* toLowerCase and replace are computed and not assumed.                   *)
(***************************************************************************)
EXTENDS Integers, Sequences, FiniteSets, TLC

VARIABLES
    tasks,      \* the tasks collection: record number -> document
    nextId,     \* the next record number the store issues
    clock,      \* the time of the latest write
    lastResp,   \* the response being sent, with the request it answers
    origin,     \* history: for every stored task, who created it and with what body
    inflight,   \* the PUT requests between their read and their save
    statsRun,   \* the GET /tasks/stats request between its reads
    users,      \* the users collection, in order of registration
    registerResponse,   \* the client's copy of the latest registration response
    dashboard,  \* the state of the Dashboard component
    form,       \* the state of the TaskForm component
    calls       \* the browser's requests that have not been answered to the client

vars == <<tasks, nextId, clock, lastResp, origin, inflight, statsRun, users,
          registerResponse, dashboard, form, calls>>

\* The state of the browser client, and the state of the server.
client == <<dashboard, form, calls>>
server ==
    <<tasks, nextId, clock, lastResp, origin, inflight, statsRun, users, registerResponse>>

\* ---------------------------------------------------------------- bounds
\* Number of task ids the store issues in one behaviour.
MaxTasks == 2
\* Number of writes (inserts and modifying saves) in one behaviour.
MaxClock == 3
\* Number of requests of the browser that are outstanding at one time.
MaxCalls == 2

\* ------------------------------------------------------ program constants
TitleMaxLen == 100
DescriptionMaxLen == 500
TopCategoriesLimit == 5
\* The shortest title, description and category validateForm accepts.
TitleMinLen == 3
DescriptionMinLen == 10
CategoryMinLen == 2

\* Registered users (their record numbers).
Users == {1, 2}

\* ---------------------------------------------------------------- values
Undefined == [t |-> "undefined", v |-> <<>>]
Null == [t |-> "null", v |-> <<>>]
Str(s) == [t |-> "string", v |-> s]
Date(n) == [t |-> "date", v |-> <<n>>]
InvalidDate == [t |-> "date", v |-> <<>>]
Oid(n) == [t |-> "oid", v |-> <<n>>]

IsString(x) == x.t = "string"
\* JavaScript truthiness of the values above (no numbers or booleans occur).
Truthy(x) ==
    CASE x.t = "undefined" -> FALSE
      [] x.t = "null" -> FALSE
      [] x.t = "string" -> x.v # <<>>
      [] OTHER -> TRUE

\* --------------------------------------------------------------- strings
sEmpty == <<>>
sBlank == <<" ", " ">>
sA == <<"A">>
sPadA == <<" ", "A", " ">>
sB == <<"B">>
sDesc == <<"d", "o", " ", "i", "t">>
sGeneral == <<"G", "e", "n", "e", "r", "a", "l">>
sWork == <<"W", "o", "r", "k">>
sHigh == <<"H", "i", "g", "h">>
sMedium == <<"M", "e", "d", "i", "u", "m">>
sLow == <<"L", "o", "w">>
sUrgent == <<"U", "r", "g", "e", "n", "t">>
sPending == <<"P", "e", "n", "d", "i", "n", "g">>
sInProgress == <<"I", "n", " ", "P", "r", "o", "g", "r", "e", "s", "s">>
sCompleted == <<"C", "o", "m", "p", "l", "e", "t", "e", "d">>
sDone == <<"D", "o", "n", "e">>
sDay1 == <<"2", "0", "2", "6", "-", "0", "1", "-", "2", "0">>
sDay2 == <<"2", "0", "2", "6", "-", "0", "1", "-", "2", "5">>
sGarbage == <<"s", "o", "o", "n">>
sDueDate == <<"d", "u", "e", "D", "a", "t", "e">>
sAsc == <<"a", "s", "c">>
sDesc2 == <<"d", "e", "s", "c">>
sNotAnId == <<"x", "y", "z">>
Filler(n) == [i \in 1..n |-> "x"]

RECURSIVE TrimStart(_)
TrimStart(s) ==
    IF s = <<>> THEN s
    ELSE IF Head(s) = " " THEN TrimStart(Tail(s)) ELSE s

RECURSIVE TrimEnd(_)
TrimEnd(s) ==
    IF s = <<>> THEN s
    ELSE IF s[Len(s)] = " " THEN TrimEnd(SubSeq(s, 1, Len(s) - 1)) ELSE s

\* String.prototype.trim, as mongoose's `trim: true` setter applies it.
Trim(s) == TrimEnd(TrimStart(s))

LowerChar(c) ==
    CASE c = "A" -> "a" [] c = "B" -> "b" [] c = "C" -> "c" [] c = "D" -> "d"
      [] c = "G" -> "g" [] c = "H" -> "h" [] c = "I" -> "i" [] c = "L" -> "l"
      [] c = "M" -> "m" [] c = "P" -> "p" [] c = "U" -> "u" [] c = "W" -> "w"
      [] OTHER -> c

\* String.prototype.toLowerCase
ToLowerCase(s) == [i \in 1..Len(s) |-> LowerChar(s[i])]

\* String.prototype.replace(a, b) with string arguments: the FIRST occurrence.
ReplaceFirst(s, a, b) ==
    IF \E i \in 1..Len(s) : s[i] = a
    THEN LET k == CHOOSE i \in 1..Len(s) :
                     s[i] = a /\ \A j \in 1..(i - 1) : s[j] # a
         IN  [i \in 1..Len(s) |-> IF i = k THEN b ELSE s[i]]
    ELSE s

\* -------------------------------------------------------- record identifiers
\* The 24-hex-digit string form of record number n (what JSON carries).
DigitChar == <<"1", "2", "3", "4", "5", "6", "7", "8", "9">>
HexStr(n) == Str(<<"#", DigitChar[n]>>)
IsHexStr(x) ==
    /\ IsString(x)
    /\ Len(x.v) = 2
    /\ x.v[1] = "#"
    /\ \E n \in 1..Len(DigitChar) : DigitChar[n] = x.v[2]
HexNum(x) == CHOOSE n \in 1..Len(DigitChar) : DigitChar[n] = x.v[2]

CastError == [t |-> "CastError", v |-> <<>>]
IsCastError(x) == x.t = "CastError"

\* mongoose's cast of a value to the ObjectId schema type.
CastObjectId(x) ==
    CASE x.t = "oid" -> x
      [] IsHexStr(x) -> Oid(HexNum(x))
      [] x.t \in {"undefined", "null"} -> x
      [] OTHER -> CastError

\* new Date(string)
ParseDate(x) ==
    CASE x = Str(sDay1) -> Date(1)
      [] x = Str(sDay2) -> Date(2)
      [] OTHER -> InvalidDate

\* ------------------------------------------------------------ bearer tokens
\* A signed token: who signed it, whether its expiry has passed, its payload.
Jwt(sig, exp, n) == [kind |-> "jwt", sig |-> sig, exp |-> exp, id |-> HexStr(n)]
EmptyToken == [kind |-> "empty", sig |-> "none", exp |-> "none", id |-> Undefined]

\* The Authorization header: absent, or a string that may start with the
\* scheme prefix 'Bearer ' and continues with `token`.
NoHeader == [present |-> FALSE, scheme |-> FALSE, token |-> EmptyToken]
Header(scheme, token) == [present |-> TRUE, scheme |-> scheme, token |-> token]

Headers ==
    {NoHeader, Header(TRUE, EmptyToken)}
    \cup {Header(TRUE, Jwt("good", "live", u)) : u \in Users}
    \cup {Header(FALSE, Jwt("good", "live", 1)),
          Header(TRUE, Jwt("bad", "live", 1)),
          Header(TRUE, Jwt("good", "expired", 1))}

\* req.header('Authorization')?.replace('Bearer ', '')
ExtractToken(h) == IF h.present THEN h.token ELSE EmptyToken

\* Mutant of JwtVerify: the payload is decoded without checking the signature
\* (jwt.decode in place of jwt.verify).
JwtVerify_DecodeOnly(token) ==
    CASE token.exp # "live" -> [error |-> "TokenExpiredError", id |-> Undefined]
      [] OTHER -> [error |-> "none", id |-> token.id]

\* jwt.verify(token, secret): the decoded payload, or the error it throws.
JwtVerify(token) ==
    CASE token.sig # "good" -> [error |-> "JsonWebTokenError", id |-> Undefined]
      [] token.exp # "live" -> [error |-> "TokenExpiredError", id |-> Undefined]
      [] OTHER -> [error |-> "none", id |-> token.id]

\* Mutant of Auth: the branch for error.name === 'TokenExpiredError' is
\* missing, so an expired token falls through to the final 500.
Auth_NoExpiryBranch(h) ==
    LET token == ExtractToken(h)
        decoded == JwtVerify(token)
    IN  IF token.kind = "empty"
        THEN [next |-> FALSE, code |-> 401, message |-> "Access denied. No token provided.",
              user |-> Undefined]
        ELSE IF decoded.error = "JsonWebTokenError"
        THEN [next |-> FALSE, code |-> 401, message |-> "Invalid token.",
              user |-> Undefined]
        ELSE IF decoded.error = "TokenExpiredError"
        THEN [next |-> FALSE, code |-> 500, message |-> "Authentication failed.",
              user |-> Undefined]
        ELSE [next |-> TRUE, code |-> 0, message |-> "", user |-> decoded.id]

\* Mutant of Auth: the assignment req.user = decoded is missing, so a
\* verified request carries no identity.
Auth_NoIdentity(h) ==
    LET token == ExtractToken(h)
        decoded == JwtVerify(token)
    IN  IF token.kind = "empty"
        THEN [next |-> FALSE, code |-> 401, message |-> "Access denied. No token provided.",
              user |-> Undefined]
        ELSE IF decoded.error = "JsonWebTokenError"
        THEN [next |-> FALSE, code |-> 401, message |-> "Invalid token.",
              user |-> Undefined]
        ELSE IF decoded.error = "TokenExpiredError"
        THEN [next |-> FALSE, code |-> 401, message |-> "Token expired.",
              user |-> Undefined]
        ELSE [next |-> TRUE, code |-> 0, message |-> "", user |-> Undefined]

\* The auth middleware: whether next() is called, the response otherwise,
\* and req.user.
Auth(h) ==
    LET token == ExtractToken(h)
        decoded == JwtVerify(token)
    IN  IF token.kind = "empty"
        THEN [next |-> FALSE, code |-> 401, message |-> "Access denied. No token provided.",
              user |-> Undefined]
        ELSE IF decoded.error = "JsonWebTokenError"
        THEN [next |-> FALSE, code |-> 401, message |-> "Invalid token.",
              user |-> Undefined]
        ELSE IF decoded.error = "TokenExpiredError"
        THEN [next |-> FALSE, code |-> 401, message |-> "Token expired.",
              user |-> Undefined]
        ELSE [next |-> TRUE, code |-> 0, message |-> "", user |-> decoded.id]

\* ------------------------------------------------------------- Task schema
Fields == {"title", "description", "category", "priority", "status", "dueDate"}
PriorityEnum == {sHigh, sMedium, sLow}
StatusEnum == {sPending, sInProgress, sCompleted}

NoTask ==
    [_id |-> Undefined, title |-> Undefined, description |-> Undefined,
     category |-> Undefined, priority |-> Undefined, status |-> Undefined,
     dueDate |-> Undefined, user |-> Undefined, createdAt |-> Undefined,
     updatedAt |-> Undefined]

\* A request body: every key the handlers read, Undefined when absent, and
\* the key `user`, which a client may send and no handler reads.
NoBody ==
    [title |-> Undefined, description |-> Undefined, category |-> Undefined,
     priority |-> Undefined, status |-> Undefined, dueDate |-> Undefined,
     user |-> Undefined]

\* Cast of a value set on a String path with `trim: true`.
CastTrimmed(x) == IF IsString(x) THEN Str(Trim(x.v)) ELSE x

\* Cast of a value set on a path of the schema (setters included).
CastPath(f, x) ==
    CASE f \in {"title", "description", "category"} -> CastTrimmed(x)
      [] f = "user" -> CastObjectId(x)
      [] OTHER -> x

\* Mutant of DefaultOf: the schema declares no defaults.
DefaultOf_None(f) == Undefined

\* The schema's default for a path left undefined at construction.
DefaultOf(f) ==
    CASE f = "category" -> Str(sGeneral)
      [] f = "priority" -> Str(sMedium)
      [] f = "status" -> Str(sPending)
      [] OTHER -> Undefined

WithDefault(f, x) == IF x = Undefined THEN DefaultOf(f) ELSE CastPath(f, x)

\* The validator of one path of the schema: TRUE when the value passes.
PathValid(f, x) ==
    CASE f = "title" ->
            /\ IsString(x) /\ x.v # <<>>
            /\ Len(x.v) <= TitleMaxLen
      [] f = "description" -> IsString(x) => Len(x.v) <= DescriptionMaxLen
      [] f = "priority" -> IsString(x) => x.v \in PriorityEnum
      [] f = "status" -> IsString(x) => x.v \in StatusEnum
      [] f = "dueDate" -> x # InvalidDate
      [] f = "user" -> x.t = "oid"
      [] OTHER -> TRUE

\* document.validate() over the given paths: the paths that fail.
ValidationErrors(doc, paths) == {f \in paths : ~PathValid(f, doc[f])}

\* Mutant of NewTask: the owner is taken from the request body when it
\* carries one ({...req.body} spread into the document).
NewTask_UserFromBody(body, userId, id, now) ==
    [_id |-> Oid(id),
     title |-> WithDefault("title", body.title),
     description |-> WithDefault("description", body.description),
     category |-> WithDefault("category", body.category),
     priority |-> WithDefault("priority", body.priority),
     status |-> WithDefault("status", body.status),
     dueDate |-> IF Truthy(body.dueDate) THEN ParseDate(body.dueDate)
                 ELSE Undefined,
     user |-> IF body.user # Undefined THEN CastObjectId(body.user)
              ELSE CastObjectId(userId),
     createdAt |-> Date(now),
     updatedAt |-> Date(now)]

\* new Task({...}) as router.post builds it, with _id and timestamps as
\* save() sets them on insert.
NewTask(body, userId, id, now) ==
    [_id |-> Oid(id),
     title |-> WithDefault("title", body.title),
     description |-> WithDefault("description", body.description),
     category |-> WithDefault("category", body.category),
     priority |-> WithDefault("priority", body.priority),
     status |-> WithDefault("status", body.status),
     dueDate |-> IF Truthy(body.dueDate) THEN ParseDate(body.dueDate)
                 ELSE Undefined,
     user |-> CastObjectId(userId),
     createdAt |-> Date(now),
     updatedAt |-> Date(now)]

\* ------------------------------------------------------------------ store
\* Mutant of FindByIdAndUser: the filter holds the _id alone.
FindByIdOnly(store, id, userId) ==
    {n \in DOMAIN store : store[n]._id = CastObjectId(id)}

\* Model.findOne / findOneAndDelete({_id, user}): filters are cast to the
\* schema; the record numbers of the matching documents.
FindByIdAndUser(store, id, userId) ==
    {n \in DOMAIN store :
        /\ store[n]._id = CastObjectId(id)
        /\ store[n].user = CastObjectId(userId)}

FilterCastFails(id, userId) ==
    IsCastError(CastObjectId(id)) \/ IsCastError(CastObjectId(userId))

Insert(store, doc) ==
    [n \in DOMAIN store \cup {doc._id.v[1]} |->
        IF n = doc._id.v[1] THEN doc ELSE store[n]]

\* Mutant of Remove: the document is left in the collection (a delete
\* that only reports the document it found).
Remove_Nothing(store, n) == store

\* The collection without record n.
Remove(store, n) == [m \in DOMAIN store \ {n} |-> store[m]]

\* ---------------------------------------------------------------- responses
NoQuery ==
    [status |-> Undefined, priority |-> Undefined, category |-> Undefined,
     sortBy |-> Undefined, order |-> Undefined]

NoStats == [total |-> 0, byStatus |-> <<>>, byPriority |-> <<>>,
            topCategories |-> <<>>]

\* data.user of the /api/auth responses: the public profile.
NoUser == [id |-> Undefined, username |-> Undefined, email |-> Undefined]

\* The response to a request, with what the request carried; `by` tells
\* whether the middleware or the route's handler answered.
Response(by, route, h, identity, id, query, body) ==
    [by |-> by, route |-> route, header |-> h, identity |-> identity, id |-> id,
     query |-> query, body |-> body,
     code |-> 0, status |-> "", message |-> "",
     task |-> NoTask, tasks |-> <<>>, count |-> 0, stats |-> NoStats,
     user |-> NoUser, token |-> EmptyToken]

Routes == {"list", "stats", "get", "post", "put", "delete"}

\* Path parameters :id a client may send.
PathIds == {HexStr(n) : n \in 1..(MaxTasks + 1)} \cup {Str(sNotAnId)}

\* ------------------------------------------------------------ request bodies
TitleInputs == {Undefined, Str(sBlank), Str(sPadA), Str(sB), Str(Filler(TitleMaxLen + 1))}

Keyed(f, x) == [NoBody EXCEPT ![f] = x]

\* One key besides the title, or none.
OptionalParts ==
    {NoBody, Keyed("description", Str(sDesc)), Keyed("category", Str(sWork)),
     Keyed("priority", Str(sHigh)), Keyed("priority", Str(sUrgent)),
     Keyed("status", Str(sCompleted)), Keyed("dueDate", Str(sDay1)),
     Keyed("dueDate", Str(sGarbage)), Keyed("user", HexStr(2))}

\* A body with every key the form sends.
FullBody ==
    [title |-> Str(sB), description |-> Str(sDesc), category |-> Str(sWork),
     priority |-> Str(sHigh), status |-> Str(sCompleted), dueDate |-> Str(sDay1),
     user |-> Undefined]

\* A description one character longer than the schema allows.
LongDescription == Str(Filler(DescriptionMaxLen + 1))

\* Bodies of POST: every title alone, one title with a key the schema rejects
\* or with an owner, and the full body.
PostBodies ==
    {Keyed("title", t) : t \in TitleInputs \cup {Str(sEmpty)}}
    \cup {[Keyed(f[1], f[2]) EXCEPT !.title = Str(sB)] :
            f \in {<<"priority", Str(sUrgent)>>, <<"status", Str(sDone)>>,
                   <<"dueDate", Str(sGarbage)>>, <<"description", LongDescription>>,
                   <<"user", HexStr(2)>>}}
    \cup {FullBody}

\* Bodies of PUT: empty, one key, and the two keys of the API test script.
PutBodies ==
    OptionalParts
    \cup {Keyed("title", t) : t \in TitleInputs \ {Undefined}}
    \cup {Keyed("dueDate", Str(sEmpty)), Keyed("status", Str(sDone)),
          Keyed("description", LongDescription),
          [NoBody EXCEPT !.status = Str(sCompleted), !.description = Str(sDesc)]}

\* ------------------------------------------------------------------ handlers
\* Any /api/tasks request whose token does not verify: the middleware answers.
AuthReject(h, route) ==
    /\ ~Auth(h).next
    /\ lastResp' = [Response("auth", route, h, Undefined, Undefined, NoQuery, NoBody)
                      EXCEPT !.code = Auth(h).code, !.status = "error",
                             !.message = Auth(h).message]
    /\ UNCHANGED <<tasks, nextId, clock, origin>>

\* POST /api/tasks
PostTask(h, body) ==
    /\ Auth(h).next
    /\ LET identity == Auth(h).user
           base == Response("handler", "post", h, identity, Undefined, NoQuery, body)
           task == NewTask(body, identity, nextId, clock + 1)
       IN  IF ~Truthy(body.title)
           THEN /\ lastResp' = [base EXCEPT !.code = 400, !.status = "error",
                                   !.message = "Task title is required"]
                /\ UNCHANGED <<tasks, nextId, clock, origin>>
           ELSE IF ValidationErrors(task, Fields \cup {"user"}) # {}
           THEN /\ lastResp' = [base EXCEPT !.code = 500, !.status = "error",
                                   !.message = "Failed to create task"]
                /\ UNCHANGED <<tasks, nextId, clock, origin>>
           ELSE /\ nextId <= MaxTasks
                /\ clock < MaxClock
                /\ tasks' = Insert(tasks, task)
                /\ nextId' = nextId + 1
                /\ clock' = clock + 1
                /\ origin' = Insert(origin, [_id |-> Oid(nextId), by |-> identity, body |-> body])
                /\ lastResp' = [base EXCEPT !.code = 201, !.status = "success",
                                   !.message = "Task created successfully",
                                   !.task = task]

\* GET /api/tasks/:id
GetTask(h, id) ==
    /\ Auth(h).next
    /\ LET identity == Auth(h).user
           base == Response("handler", "get", h, identity, id, NoQuery, NoBody)
           found == FindByIdAndUser(tasks, id, identity)
       IN  lastResp' =
             IF FilterCastFails(id, identity)
             THEN [base EXCEPT !.code = 500, !.status = "error",
                               !.message = "Failed to fetch task"]
             ELSE IF found = {}
             THEN [base EXCEPT !.code = 404, !.status = "error",
                               !.message = "Task not found"]
             ELSE [base EXCEPT !.code = 200, !.status = "success",
                               !.task = tasks[CHOOSE n \in found : TRUE]]
    /\ UNCHANGED <<tasks, nextId, clock, origin>>

\* DELETE /api/tasks/:id
DeleteTask(h, id) ==
    /\ Auth(h).next
    /\ LET identity == Auth(h).user
           base == Response("handler", "delete", h, identity, id, NoQuery, NoBody)
           found == FindByIdAndUser(tasks, id, identity)
       IN  IF FilterCastFails(id, identity)
           THEN /\ lastResp' = [base EXCEPT !.code = 500, !.status = "error",
                                   !.message = "Failed to delete task"]
                /\ UNCHANGED <<tasks, origin>>
           ELSE IF found = {}
           THEN /\ lastResp' = [base EXCEPT !.code = 404, !.status = "error",
                                   !.message = "Task not found"]
                /\ UNCHANGED <<tasks, origin>>
           ELSE LET n == CHOOSE m \in found : TRUE
                IN  /\ tasks' = Remove(tasks, n)
                    /\ origin' = Remove(origin, n)
                    /\ lastResp' = [base EXCEPT !.code = 200, !.status = "success",
                                       !.message = "Task deleted successfully",
                                       !.task = tasks[n]]
    /\ UNCHANGED <<nextId, clock>>

\* Mutant of ApplyBody: description is assigned without the
\* `!== undefined` test, so an absent key clears it.
ApplyBody_ClearsDescription(doc, body) ==
    [doc EXCEPT
       !.title = IF body.title # Undefined
                 THEN CastPath("title", body.title) ELSE @,
       !.description = CastPath("description", body.description),
       !.category = IF body.category # Undefined
                    THEN CastPath("category", body.category) ELSE @,
       !.priority = IF body.priority # Undefined
                    THEN CastPath("priority", body.priority) ELSE @,
       !.status = IF body.status # Undefined
                  THEN CastPath("status", body.status) ELSE @,
       !.dueDate = IF body.dueDate # Undefined
                   THEN (IF Truthy(body.dueDate) THEN ParseDate(body.dueDate)
                         ELSE Null)
                   ELSE @]

\* The six assignments of router.put: a key present in the body is set on
\* the loaded document through the schema's cast.
ApplyBody(doc, body) ==
    [doc EXCEPT
       !.title = IF body.title # Undefined
                 THEN CastPath("title", body.title) ELSE @,
       !.description = IF body.description # Undefined
                       THEN CastPath("description", body.description) ELSE @,
       !.category = IF body.category # Undefined
                    THEN CastPath("category", body.category) ELSE @,
       !.priority = IF body.priority # Undefined
                    THEN CastPath("priority", body.priority) ELSE @,
       !.status = IF body.status # Undefined
                  THEN CastPath("status", body.status) ELSE @,
       !.dueDate = IF body.dueDate # Undefined
                   THEN (IF Truthy(body.dueDate) THEN ParseDate(body.dueDate)
                         ELSE Null)
                   ELSE @]

\* The paths mongoose marks modified: set to a value that differs.
ModifiedPaths(loaded, doc) == {f \in Fields : doc[f] # loaded[f]}

\* Mutant of Save: the update is sent with an empty filter and reaches
\* every stored document (updateMany({}) in place of an update by _id).
Save_EveryDocument(store, loaded, doc, now) ==
    LET modified == {f \in Fields : doc[f] # loaded[f]}
        saved == IF modified = {} THEN doc
                 ELSE [doc EXCEPT !.updatedAt = Date(now)]
    IN  IF {f \in modified \cup {"title", "user"} : ~PathValid(f, doc[f])} # {}
        THEN [error |-> "ValidationError", store |-> store, doc |-> doc]
        ELSE [error |-> "none",
              store |-> [n \in DOMAIN store |->
                           [f \in DOMAIN store[n] |->
                              IF f \in modified \/ (f = "updatedAt" /\ modified # {})
                              THEN saved[f] ELSE store[n][f]]],
              doc |-> saved]

\* Mutant of Save: the update is sent without validating the document
\* (save({ validateBeforeSave: false })).
Save_Unvalidated(store, loaded, doc, now) ==
    LET modified == {f \in Fields : doc[f] # loaded[f]}
        n == loaded._id.v[1]
        saved == IF modified = {} THEN doc
                 ELSE [doc EXCEPT !.updatedAt = Date(now)]
    IN  IF n \notin DOMAIN store
        THEN [error |-> "DocumentNotFoundError", store |-> store, doc |-> doc]
        ELSE [error |-> "none",
              store |-> [store EXCEPT ![n] =
                           [f \in DOMAIN @ |->
                              IF f \in modified \/ (f = "updatedAt" /\ modified # {})
                              THEN saved[f] ELSE @[f]]],
              doc |-> saved]

\* Mutant of Save: the update is sent with upsert, so that a document that
\* is no longer stored is inserted again.
Save_Upsert(store, loaded, doc, now) ==
    LET modified == ModifiedPaths(loaded, doc)
        n == loaded._id.v[1]
        saved == IF modified = {} THEN doc
                 ELSE [doc EXCEPT !.updatedAt = Date(now)]
    IN  IF ValidationErrors(doc, modified \cup {"title", "user"}) # {}
        THEN [error |-> "ValidationError", store |-> store, doc |-> doc]
        ELSE IF n \notin DOMAIN store
        THEN [error |-> "none",
              store |-> [m \in DOMAIN store \cup {n} |->
                           IF m = n THEN saved ELSE store[m]],
              doc |-> saved]
        ELSE [error |-> "none",
              store |-> [store EXCEPT ![n] =
                           [f \in DOMAIN @ |->
                              IF f \in modified \/ (f = "updatedAt" /\ modified # {})
                              THEN saved[f] ELSE @[f]]],
              doc |-> saved]

\* document.save() of a loaded document: validation of the modified and the
\* required paths, then an update of the modified paths and updatedAt on the
\* stored document with the same _id. No write when nothing is modified.
Save(store, loaded, doc, now) ==
    LET modified == ModifiedPaths(loaded, doc)
        n == loaded._id.v[1]
        saved == IF modified = {} THEN doc
                 ELSE [doc EXCEPT !.updatedAt = Date(now)]
    IN  IF ValidationErrors(doc, modified \cup {"title", "user"}) # {}
        THEN [error |-> "ValidationError", store |-> store, doc |-> doc]
        ELSE IF n \notin DOMAIN store
        THEN [error |-> "DocumentNotFoundError", store |-> store, doc |-> doc]
        ELSE [error |-> "none",
              store |-> [store EXCEPT ![n] =
                           [f \in DOMAIN @ |->
                              IF f \in modified \/ (f = "updatedAt" /\ modified # {})
                              THEN saved[f] ELSE @[f]]],
              doc |-> saved]

\* PUT /api/tasks/:id
PutTask(h, id, body) ==
    /\ Auth(h).next
    /\ LET identity == Auth(h).user
           base == Response("handler", "put", h, identity, id, NoQuery, body)
           found == FindByIdAndUser(tasks, id, identity)
       IN  IF FilterCastFails(id, identity)
           THEN /\ lastResp' = [base EXCEPT !.code = 500, !.status = "error",
                                   !.message = "Failed to update task"]
                /\ UNCHANGED <<tasks, clock>>
           ELSE IF found = {}
           THEN /\ lastResp' = [base EXCEPT !.code = 404, !.status = "error",
                                   !.message = "Task not found"]
                /\ UNCHANGED <<tasks, clock>>
           ELSE LET task == tasks[CHOOSE n \in found : TRUE]
                    result == Save(tasks, task, ApplyBody(task, body), clock + 1)
                IN  IF result.error # "none"
                    THEN /\ lastResp' = [base EXCEPT !.code = 500, !.status = "error",
                                            !.message = "Failed to update task"]
                         /\ UNCHANGED <<tasks, clock>>
                    ELSE /\ result.store # tasks => clock < MaxClock
                         /\ tasks' = result.store
                         /\ clock' = IF result.store # tasks THEN clock + 1 ELSE clock
                         /\ lastResp' = [base EXCEPT !.code = 200, !.status = "success",
                                            !.message = "Task updated successfully",
                                            !.task = result.doc]
    /\ UNCHANGED <<nextId, origin>>

\* ------------------------------------------------------------- GET /api/tasks
Query(status, priority, category, sortBy, order) ==
    [status |-> status, priority |-> priority, category |-> category,
     sortBy |-> sortBy, order |-> order]

\* Query strings: a parameter is absent (Undefined) or a string.
Queries ==
    {Query(s, p, c, Undefined, Undefined) :
        s \in {Undefined, Str(sCompleted)},
        p \in {Undefined, Str(sHigh)},
        c \in {Undefined, Str(sWork)}}
    \cup {Query(s, Undefined, Undefined, Undefined, Undefined) :
            s \in {Str(sEmpty), Str(sDone)}}
    \cup {Query(Undefined, Undefined, Undefined, Str(sDueDate), o) :
            o \in {Undefined, Str(sAsc), Str(sDesc2)}}
    \cup {Query(Undefined, Undefined, Undefined, Undefined, Str(sAsc))}

\* Mutant of FilterKeys: the category parameter is never copied to the filter.
FilterKeys_NoCategory(q) == {f \in {"status", "priority"} : Truthy(q[f])}

\* The filter object of router.get('/'): the keys it holds besides user.
FilterKeys(q) == {f \in {"status", "priority", "category"} : Truthy(q[f])}

\* Task.find(filter): the record numbers of the matching documents.
Find(store, userId, q) ==
    {n \in DOMAIN store :
        /\ store[n].user = CastObjectId(userId)
        /\ \A f \in FilterKeys(q) : store[n][f] = CastPath(f, q[f])}

\* Mutant of SortOptions: the order parameter is not read, a requested
\* sort is always ascending.
SortOptions_AlwaysAscending(q) ==
    IF Truthy(q.sortBy)
    THEN [path |-> IF q.sortBy = Str(sDueDate) THEN "dueDate" ELSE "none",
          dir |-> 1]
    ELSE [path |-> "createdAt", dir |-> -1]

\* sortOptions: the path and the direction.
SortOptions(q) ==
    IF Truthy(q.sortBy)
    THEN [path |-> IF q.sortBy = Str(sDueDate) THEN "dueDate" ELSE "none",
          dir |-> IF q.order = Str(sDesc2) THEN -1 ELSE 1]
    ELSE [path |-> "createdAt", dir |-> -1]

\* The store's ordering of the values of a sort path: missing and null
\* first, then dates in time order.
SortRank(doc, path) ==
    IF path \in DOMAIN doc /\ doc[path].t = "date" /\ doc[path].v # <<>>
    THEN doc[path].v[1] ELSE 0

\* .sort(sortOptions): every order of the documents the store may return
\* (documents with equal keys come in any order).
Sorted(store, ns, opts) ==
    {s \in [1..Cardinality(ns) -> ns] :
        /\ \A i, j \in DOMAIN s : i # j => s[i] # s[j]
        /\ \A i, j \in DOMAIN s :
              i < j => opts.dir * SortRank(store[s[i]], opts.path)
                         <= opts.dir * SortRank(store[s[j]], opts.path)}

\* Task.find(filter).sort(sortOptions): every array the store may return.
FindSorted(store, userId, q) ==
    {[i \in DOMAIN s |-> store[s[i]]] :
        s \in Sorted(store, Find(store, userId, q), SortOptions(q))}

ListTasks(h, q) ==
    /\ Auth(h).next
    /\ LET identity == Auth(h).user
           base == Response("handler", "list", h, identity, Undefined, q, NoBody)
       IN  \E found \in FindSorted(tasks, identity, q) :
              lastResp' = [base EXCEPT !.code = 200, !.status = "success",
                                       !.count = Len(found), !.tasks = found]
    /\ UNCHANGED <<tasks, nextId, clock, origin>>

\* ------------------------------------------------------- GET /api/tasks/stats
\* The $match stage of Task.aggregate: the pipeline is sent as written (an
\* aggregation pipeline is not cast to the schema), so the stored `user` is
\* compared with req.user.id as it is.
AggregateMatch(store, userId) == {n \in DOMAIN store : store[n].user = userId}

\* $group by a path with $sum 1, and $project: one item per distinct value.
GroupCount(store, ns, path) ==
    {[key |-> k, count |-> Cardinality({n \in ns : store[n][path] = k})] :
        k \in {store[n][path] : n \in ns}}

\* $sort {count: -1} then $limit: every result the store may return.
TopSorted(groups, limit) ==
    LET k == IF Cardinality(groups) < limit THEN Cardinality(groups) ELSE limit
    IN  {s \in [1..k -> groups] :
           /\ \A i, j \in DOMAIN s : i # j => s[i] # s[j]
           /\ \A i, j \in DOMAIN s : i < j => s[i].count >= s[j].count
           /\ \A g \in groups :
                 (\A i \in DOMAIN s : s[i] # g)
                    => \A i \in DOMAIN s : s[i].count >= g.count}

\* Task.countDocuments({user}): a query, cast to the schema.
CountDocuments(store, userId) ==
    Cardinality({n \in DOMAIN store : store[n].user = CastObjectId(userId)})

StatusKey(s) == ReplaceFirst(ToLowerCase(s), " ", "-")
PriorityKey(s) == ToLowerCase(s)

\* statusObj / priorityObj: the zeroed object, then one assignment per item.
CountsObject(zeroKeys, groups, Key(_)) ==
    [k \in zeroKeys \cup {Key(g.key.v) : g \in groups} |->
        IF \E g \in groups : Key(g.key.v) = k
        THEN (CHOOSE g \in groups : Key(g.key.v) = k).count
        ELSE 0]

StatusZeroKeys == {StatusKey(sPending), StatusKey(sInProgress), StatusKey(sCompleted)}
PriorityZeroKeys == {PriorityKey(sHigh), PriorityKey(sMedium), PriorityKey(sLow)}

\* The body of router.get('/stats') up to the response: what it answers
\* for req.user.id over a store (every answer the store's orders allow).
\* A group whose key is not a string makes toLowerCase throw.
StatsAnswers(store, userId) ==
    LET matched == AggregateMatch(store, userId)
        stats == GroupCount(store, matched, "status")
        priorityStats == GroupCount(store, matched, "priority")
        categoryGroups == GroupCount(store, matched, "category")
        totalTasks == CountDocuments(store, userId)
    IN  IF \E g \in stats \cup priorityStats : ~IsString(g.key)
        THEN {[code |-> 500, stats |-> NoStats]}
        ELSE {[code |-> 200,
               stats |-> [total |-> totalTasks,
                          byStatus |-> CountsObject(StatusZeroKeys, stats, StatusKey),
                          byPriority |-> CountsObject(PriorityZeroKeys,
                                                      priorityStats, PriorityKey),
                          topCategories |-> categoryStats]] :
                categoryStats \in TopSorted(categoryGroups, TopCategoriesLimit)}

GetStats(h) ==
    /\ Auth(h).next
    /\ LET identity == Auth(h).user
           base == Response("handler", "stats", h, identity, Undefined, NoQuery, NoBody)
       IN  \E a \in StatsAnswers(tasks, identity) :
              lastResp' =
                IF a.code = 500
                THEN [base EXCEPT !.code = 500, !.status = "error",
                                  !.message = "Failed to fetch statistics"]
                ELSE [base EXCEPT !.code = 200, !.status = "success",
                                  !.stats = a.stats]
    /\ UNCHANGED <<tasks, nextId, clock, origin>>

\* router.get('/stats') awaits four times: the aggregation by status, by
\* priority, by category, and countDocuments. Between them the handler holds
\* what it has read, and other requests may run.
StatsIdle ==
    [phase |-> "idle", header |-> NoHeader, stats |-> {}, priorityStats |-> {},
     categoryStats |-> <<>>]

\* The three aggregations, in the order of the handler.
ReadStatus(h) ==
    /\ statsRun.phase = "idle"
    /\ Auth(h).next
    /\ statsRun' = [StatsIdle EXCEPT
                      !.phase = "status", !.header = h,
                      !.stats = GroupCount(tasks, AggregateMatch(tasks, Auth(h).user),
                                           "status")]
    /\ UNCHANGED <<tasks, nextId, clock, origin, lastResp>>

ReadPriority ==
    /\ statsRun.phase = "status"
    /\ statsRun' = [statsRun EXCEPT
                      !.phase = "priority",
                      !.priorityStats =
                          GroupCount(tasks,
                                     AggregateMatch(tasks, Auth(statsRun.header).user),
                                     "priority")]
    /\ UNCHANGED <<tasks, nextId, clock, origin, lastResp>>

ReadCategory ==
    /\ statsRun.phase = "priority"
    /\ \E categoryStats \in
            TopSorted(GroupCount(tasks,
                                 AggregateMatch(tasks, Auth(statsRun.header).user),
                                 "category"),
                      TopCategoriesLimit) :
          statsRun' = [statsRun EXCEPT !.phase = "category",
                                       !.categoryStats = categoryStats]
    /\ UNCHANGED <<tasks, nextId, clock, origin, lastResp>>

\* What the handler answers from the results of its four reads.
StatsBody(stats, priorityStats, categoryStats, totalTasks) ==
    IF \E g \in stats \cup priorityStats : ~IsString(g.key)
    THEN [code |-> 500, stats |-> NoStats]
    ELSE [code |-> 200,
          stats |-> [total |-> totalTasks,
                     byStatus |-> CountsObject(StatusZeroKeys, stats, StatusKey),
                     byPriority |-> CountsObject(PriorityZeroKeys, priorityStats,
                                                 PriorityKey),
                     topCategories |-> categoryStats]]

\* countDocuments, the two objects and the response.
ReadTotal ==
    /\ statsRun.phase = "category"
    /\ LET h == statsRun.header
           identity == Auth(h).user
           base == Response("handler", "stats", h, identity, Undefined, NoQuery, NoBody)
           a == StatsBody(statsRun.stats, statsRun.priorityStats,
                          statsRun.categoryStats, CountDocuments(tasks, identity))
       IN  lastResp' =
             IF a.code = 500
             THEN [base EXCEPT !.code = 500, !.status = "error",
                               !.message = "Failed to fetch statistics"]
             ELSE [base EXCEPT !.code = 200, !.status = "success",
                               !.stats = a.stats]
    /\ statsRun' = StatsIdle
    /\ UNCHANGED <<tasks, nextId, clock, origin>>

\* ------------------------------------------------------- routes of server.js
\* GET /api/health: no middleware, no store access.
GetHealth ==
    /\ lastResp' = [Response("server", "health", NoHeader, Undefined, Undefined,
                              NoQuery, NoBody)
                      EXCEPT !.code = 200, !.status = "success",
                             !.message = "Server is running"]
    /\ UNCHANGED <<tasks, nextId, clock, origin>>

\* GET /: res.json of an object with message, version, documentation and
\* endpoints; it has no status key, and the code is express's default 200.
GetWelcome ==
    /\ lastResp' = [Response("server", "welcome", NoHeader, Undefined, Undefined,
                              NoQuery, NoBody)
                      EXCEPT !.code = 200,
                             !.message = "Welcome to Task Management System API"]
    /\ UNCHANGED <<tasks, nextId, clock, origin>>

\* ------------------------------------------- PUT /api/tasks/:id in two steps
\* router.put awaits twice: Task.findOne, then task.save(). Between the two
\* the handler holds the document it loaded, and other requests may run.
Slots == {1, 2}

\* A request slot: free, holding a loaded document, or answered. `seen` is
\* the number of requests answered when the document was loaded, `order` the
\* position of this request's answer among the answers.
FreeSlot ==
    [phase |-> "free", header |-> NoHeader, id |-> Undefined, body |-> NoBody,
     loaded |-> NoTask, seen |-> 0, order |-> 0, code |-> 0]

Answered == Cardinality({s \in Slots : inflight[s].phase = "done"})

\* The first half of router.put: authentication, the lookup, and the 404
\* (or the 500 of a failed cast) when it finds nothing.
PutFind(s, h, id, body) ==
    /\ inflight[s].phase = "free"
    /\ Auth(h).next
    /\ LET identity == Auth(h).user
           base == Response("handler", "put", h, identity, id, NoQuery, body)
           found == FindByIdAndUser(tasks, id, identity)
           slot == [FreeSlot EXCEPT !.header = h, !.id = id, !.body = body,
                                    !.seen = Answered]
       IN  IF FilterCastFails(id, identity)
           THEN /\ lastResp' = [base EXCEPT !.code = 500, !.status = "error",
                                   !.message = "Failed to update task"]
                /\ inflight' = [inflight EXCEPT ![s] =
                                  [slot EXCEPT !.phase = "done", !.code = 500,
                                               !.order = Answered + 1]]
           ELSE IF found = {}
           THEN /\ lastResp' = [base EXCEPT !.code = 404, !.status = "error",
                                   !.message = "Task not found"]
                /\ inflight' = [inflight EXCEPT ![s] =
                                  [slot EXCEPT !.phase = "done", !.code = 404,
                                               !.order = Answered + 1]]
           ELSE /\ inflight' = [inflight EXCEPT ![s] =
                                  [slot EXCEPT !.phase = "loaded",
                                               !.loaded = tasks[CHOOSE n \in found : TRUE]]]
                /\ UNCHANGED lastResp
    /\ UNCHANGED <<tasks, nextId, clock, origin>>

\* The second half of router.put: the assignments, task.save() and the
\* response.
PutSave(s) ==
    /\ inflight[s].phase = "loaded"
    /\ LET r == inflight[s]
           base == Response("handler", "put", r.header, Auth(r.header).user, r.id,
                            NoQuery, r.body)
           result == Save(tasks, r.loaded, ApplyBody(r.loaded, r.body), clock + 1)
       IN  IF result.error # "none"
           THEN /\ lastResp' = [base EXCEPT !.code = 500, !.status = "error",
                                   !.message = "Failed to update task"]
                /\ inflight' = [inflight EXCEPT ![s].phase = "done", ![s].code = 500,
                                                ![s].order = Answered + 1]
                /\ UNCHANGED <<tasks, clock>>
           ELSE /\ result.store # tasks => clock < MaxClock
                /\ tasks' = result.store
                /\ clock' = IF result.store # tasks THEN clock + 1 ELSE clock
                /\ lastResp' = [base EXCEPT !.code = 200, !.status = "success",
                                   !.message = "Task updated successfully",
                                   !.task = result.doc]
                /\ inflight' = [inflight EXCEPT ![s].phase = "done", ![s].code = 200,
                                                ![s].order = Answered + 1]
    /\ UNCHANGED <<nextId, origin>>

\* ------------------------------------------------------------ the client
\* The options of the two filter selects the model lets the user choose;
\* '' is "All".
PriorityOptions == {Str(sEmpty), Str(sHigh)}
StatusOptions == {Str(sEmpty), Str(sPending), Str(sCompleted)}

ZeroStats == [total |-> 0, pending |-> 0, inProgress |-> 0, completed |-> 0]

\* The useState initial values of Dashboard, with `mounted` (the first
\* effect has run) and `shown`, the query of the response the displayed
\* list was taken from.
InitialDashboard ==
    [mounted |-> FALSE, tasks |-> <<>>, stats |-> ZeroStats,
     priorityFilter |-> Str(sEmpty), statusFilter |-> Str(sEmpty),
     isModalOpen |-> FALSE, editingTask |-> Null,
     deleteModalOpen |-> FALSE, taskToDelete |-> Null,
     shown |-> NoQuery]

\* The useState initial values of TaskForm.
EmptyFormData ==
    [title |-> Str(sEmpty), description |-> Str(sEmpty), category |-> Str(sEmpty),
     priority |-> Str(sMedium), status |-> Str(sPending), dueDate |-> Str(sEmpty)]

InitialForm == [formData |-> EmptyFormData, loading |-> FALSE, errors |-> {}]

\* calculateStats(tasksArray)
CalculateStats(tasksArray) ==
    LET count(s) == Cardinality({i \in DOMAIN tasksArray : tasksArray[i].status = Str(s)})
    IN  [total |-> Len(tasksArray), pending |-> count(sPending),
         inProgress |-> count(sInProgress), completed |-> count(sCompleted)]

\* The params fetchTasks sends for the filters of the render it belongs to.
FetchParams(priorityFilter, statusFilter) ==
    Query(IF Truthy(statusFilter) THEN statusFilter ELSE Undefined,
          IF Truthy(priorityFilter) THEN priorityFilter ELSE Undefined,
          Undefined, Str(sDueDate), Str(sAsc))

\* A request of the browser: what it asks, whether the server has answered
\* it (the response is then on its way), the filters of the render whose
\* handler sent it, and whether the component that awaits it has been
\* unmounted since.
Call(op, query, id, body) ==
    [op |-> op, query |-> query, id |-> id, body |-> body,
     answered |-> FALSE,
     priorityFilter |-> dashboard.priorityFilter,
     statusFilter |-> dashboard.statusFilter,
     unmounted |-> FALSE]

\* fetchTasks() of the render with the given filters.
FetchCall(priorityFilter, statusFilter) ==
    Call("fetch", FetchParams(priorityFilter, statusFilter), Undefined, NoBody)

\* A sequence without its i-th element.
Without(seq, i) == SubSeq(seq, 1, i - 1) \o SubSeq(seq, i + 1, Len(seq))

\* The hex string JSON carries for a document's _id.
IdOf(task) == HexStr(task._id.v[1])

\* The logged-in user's token, which the axios instance attaches.
ClientHeader == Header(TRUE, Jwt("good", "live", 1))

\* The server handles request i of the browser; it takes the requests in
\* any order, one at a time.
Serve(i) ==
    /\ lastResp.by = "none"
    /\ CASE calls[i].op = "fetch" -> ListTasks(ClientHeader, calls[i].query)
         [] calls[i].op = "delete" -> DeleteTask(ClientHeader, calls[i].id)
         [] calls[i].op = "post" ->
               PostTask(ClientHeader, calls[i].body)
         [] calls[i].op = "put" -> PutTask(ClientHeader, calls[i].id, calls[i].body)
    /\ calls' = [calls EXCEPT ![i].answered = TRUE]
    /\ UNCHANGED <<inflight, statsRun, users, registerResponse, dashboard, form>>

\* axios resolves for a 2xx response and rejects otherwise.
Resolved == lastResp.code \in 200..299

\* The response has reached the browser.
Received ==
    /\ lastResp' = Response("none", "none", NoHeader, Undefined, Undefined, NoQuery, NoBody)
    /\ UNCHANGED <<tasks, nextId, clock, origin, inflight, statsRun, users,
                   registerResponse>>

\* The first effect of Dashboard: loadData() calls fetchTasks().
Mount ==
    /\ ~dashboard.mounted
    /\ Len(calls) < MaxCalls
    /\ dashboard' = [dashboard EXCEPT !.mounted = TRUE]
    /\ calls' = Append(calls, FetchCall(dashboard.priorityFilter, dashboard.statusFilter))

\* No modal covers the page.
PageOpen ==
    dashboard.mounted /\ ~dashboard.isModalOpen /\ ~dashboard.deleteModalOpen

\* onChange of the priority select, and the effect on [priorityFilter,
\* statusFilter] that follows the render.
SelectPriority(v) ==
    /\ PageOpen
    /\ v # dashboard.priorityFilter
    /\ Len(calls) < MaxCalls
    /\ dashboard' = [dashboard EXCEPT !.priorityFilter = v]
    /\ calls' = Append(calls, FetchCall(v, dashboard.statusFilter))

\* onChange of the status select, and the effect that follows the render.
SelectStatus(v) ==
    /\ PageOpen
    /\ v # dashboard.statusFilter
    /\ Len(calls) < MaxCalls
    /\ dashboard' = [dashboard EXCEPT !.statusFilter = v]
    /\ calls' = Append(calls, FetchCall(dashboard.priorityFilter, v))

\* handleDelete(taskId)
HandleDelete(taskId) ==
    /\ PageOpen
    /\ dashboard' = [dashboard EXCEPT !.taskToDelete = taskId, !.deleteModalOpen = TRUE]
    /\ UNCHANGED calls

\* confirmDelete, up to its await.
ConfirmDelete ==
    /\ dashboard.deleteModalOpen
    /\ Len(calls) < MaxCalls
    /\ calls' = Append(calls, Call("delete", NoQuery, dashboard.taskToDelete, NoBody))
    /\ UNCHANGED dashboard

\* cancelDelete
CancelDelete ==
    /\ dashboard.deleteModalOpen
    /\ dashboard' = [dashboard EXCEPT !.deleteModalOpen = FALSE, !.taskToDelete = Null]
    /\ UNCHANGED calls

\* fetchTasks after its await, and the effect on [tasks] (calculateStats).
FetchSettles(i) ==
    /\ calls[i].op = "fetch"
    /\ calls[i].answered
    /\ Received
    /\ LET fetchedTasks == IF Resolved THEN lastResp.tasks ELSE <<>>
       IN  dashboard' = [dashboard EXCEPT !.tasks = fetchedTasks,
                                          !.stats = CalculateStats(fetchedTasks),
                                          !.shown = calls[i].query]
    /\ calls' = Without(calls, i)

\* confirmDelete closing the modal whether the request succeeded or not.
DeleteSettles_ClosesAlways(i) ==
    /\ calls[i].op = "delete"
    /\ calls[i].answered
    /\ Received
    /\ dashboard' = [dashboard EXCEPT !.deleteModalOpen = FALSE, !.taskToDelete = Null]
    /\ calls' = IF Resolved
                THEN Append(Without(calls, i),
                            FetchCall(calls[i].priorityFilter, calls[i].statusFilter))
                ELSE Without(calls, i)

\* confirmDelete after its await: on success the modal closes and
\* fetchTasks() of the render that sent the request runs; on failure only
\* the toast is shown.
DeleteSettles(i) ==
    /\ calls[i].op = "delete"
    /\ calls[i].answered
    /\ Received
    /\ IF Resolved
       THEN /\ dashboard' = [dashboard EXCEPT !.deleteModalOpen = FALSE,
                                              !.taskToDelete = Null]
            /\ calls' = Append(Without(calls, i),
                               FetchCall(calls[i].priorityFilter, calls[i].statusFilter))
       ELSE /\ calls' = Without(calls, i)
            /\ UNCHANGED dashboard

\* ------------------------------------------------------------ the task form
\* The browser's local calendar day, as `new Date(...)` numbers the days:
\* 2026-01-20 is in the past, 2026-01-25 is today.
Today == 2

\* new Date(task.dueDate).toISOString().split('T')[0]
ToDayString(date) == IF date.v = <<1>> THEN Str(sDay1) ELSE Str(sDay2)

\* The effect on [task] of TaskForm: the form data of the task being edited.
FormDataOf(task) ==
    [title |-> IF Truthy(task.title) THEN task.title ELSE Str(sEmpty),
     description |-> IF Truthy(task.description) THEN task.description ELSE Str(sEmpty),
     category |-> IF Truthy(task.category) THEN task.category ELSE Str(sEmpty),
     priority |-> IF Truthy(task.priority) THEN task.priority ELSE Str(sMedium),
     status |-> IF Truthy(task.status) THEN task.status ELSE Str(sPending),
     dueDate |-> IF Truthy(task.dueDate) THEN ToDayString(task.dueDate) ELSE Str(sEmpty)]

\* What the user types: a form whose fields are the shortest validateForm
\* accepts, one whose title and description are the longest, and forms that
\* differ from the first in one field.
ValidFormData ==
    [title |-> Str(Filler(TitleMinLen)), description |-> Str(Filler(DescriptionMinLen)),
     category |-> Str(Filler(CategoryMinLen)), priority |-> Str(sMedium),
     status |-> Str(sPending), dueDate |-> Str(sDay2)]

FormInputs ==
    {ValidFormData,
     [ValidFormData EXCEPT !.title = Str(Filler(TitleMaxLen)),
                           !.description = Str(Filler(DescriptionMaxLen))]}
    \cup {[ValidFormData EXCEPT !.title = Str(t)] :
            t \in {<<" ">> \o Filler(TitleMinLen - 1), Filler(TitleMaxLen + 1)}}
    \cup {[ValidFormData EXCEPT !.description = Str(d)] :
            d \in {Filler(DescriptionMinLen - 1), Filler(DescriptionMaxLen + 1)}}
    \cup {[ValidFormData EXCEPT !.category = Str(c)] :
            c \in {sEmpty, Filler(CategoryMinLen - 1)}}
    \cup {[ValidFormData EXCEPT !.dueDate = Str(d)] : d \in {sEmpty, sDay1}}

\* selectedDate < today: the selected day at 00:00 UTC against the local
\* midnight of the browser's day.
BeforeToday(date, today, west) ==
    /\ date.v # <<>>
    /\ \/ date.v[1] < today
       \/ date.v[1] = today /\ west

\* validateForm without its check of the due date.
ValidateForm_NoDueDate(formData, today, west) ==
    {f \in {"title"} :
        \/ ~Truthy(Str(Trim(formData.title.v)))
        \/ Len(Trim(formData.title.v)) < TitleMinLen
        \/ Len(formData.title.v) > TitleMaxLen}
    \cup {f \in {"description"} :
        \/ ~Truthy(Str(Trim(formData.description.v)))
        \/ Len(Trim(formData.description.v)) < DescriptionMinLen
        \/ Len(formData.description.v) > DescriptionMaxLen}
    \cup {f \in {"category"} :
        \/ ~Truthy(Str(Trim(formData.category.v)))
        \/ Len(Trim(formData.category.v)) < CategoryMinLen}

\* validateForm: the fields newErrors holds.
ValidateForm(formData, today, west) ==
    {f \in {"title"} :
        \/ ~Truthy(Str(Trim(formData.title.v)))
        \/ Len(Trim(formData.title.v)) < TitleMinLen
        \/ Len(formData.title.v) > TitleMaxLen}
    \cup {f \in {"description"} :
        \/ ~Truthy(Str(Trim(formData.description.v)))
        \/ Len(Trim(formData.description.v)) < DescriptionMinLen
        \/ Len(formData.description.v) > DescriptionMaxLen}
    \cup {f \in {"category"} :
        \/ ~Truthy(Str(Trim(formData.category.v)))
        \/ Len(Trim(formData.category.v)) < CategoryMinLen}
    \cup {f \in {"dueDate"} :
        \/ ~Truthy(formData.dueDate)
        \/ BeforeToday(ParseDate(formData.dueDate), today, west)}

\* The JSON body axios sends for the form data.
BodyOf(formData) ==
    [title |-> formData.title, description |-> formData.description,
     category |-> formData.category, priority |-> formData.priority,
     status |-> formData.status, dueDate |-> formData.dueDate, user |-> Undefined]

\* The form's component is unmounted: what it awaits can no longer set its
\* state.
Orphaned(cs) ==
    [i \in DOMAIN cs |->
        IF cs[i].op \in {"post", "put"} THEN [cs[i] EXCEPT !.unmounted = TRUE] ELSE cs[i]]

\* handleCreate, and the mount of TaskForm.
HandleCreate ==
    /\ PageOpen
    /\ dashboard' = [dashboard EXCEPT !.editingTask = Null, !.isModalOpen = TRUE]
    /\ form' = InitialForm
    /\ UNCHANGED calls

\* handleEdit(task), the mount of TaskForm and its effect on [task].
HandleEdit(task) ==
    /\ PageOpen
    /\ dashboard' = [dashboard EXCEPT !.editingTask = task, !.isModalOpen = TRUE]
    /\ form' = [InitialForm EXCEPT !.formData = FormDataOf(task)]
    /\ UNCHANGED calls

\* handleChange for the fields in which the typed form differs.
HandleChange(typed) ==
    /\ dashboard.isModalOpen
    /\ typed # form.formData
    /\ form' = [form EXCEPT
                  !.formData = typed,
                  !.errors = {f \in @ : typed[f] = form.formData[f]}]
    /\ UNCHANGED <<dashboard, calls>>

\* The writes the outstanding requests of the browser may still make.
WritesAhead == Cardinality({i \in DOMAIN calls : calls[i].op \in {"post", "put"}})
PostsAhead == Cardinality({i \in DOMAIN calls : calls[i].op = "post"})

\* handleSubmit, up to its await; `west` tells whether the browser's time
\* zone is west of UTC.
HandleSubmit(west) ==
    /\ dashboard.isModalOpen
    /\ ~form.loading
    /\ LET newErrors == ValidateForm(form.formData, Today, west)
           task == dashboard.editingTask
       IN  IF newErrors # {}
           THEN /\ form' = [form EXCEPT !.errors = newErrors]
                /\ UNCHANGED calls
           ELSE /\ Len(calls) < MaxCalls
                /\ clock + WritesAhead < MaxClock
                /\ task = Null => nextId + PostsAhead <= MaxTasks
                /\ form' = [form EXCEPT !.errors = newErrors, !.loading = TRUE]
                /\ calls' = Append(calls,
                              IF task # Null
                              THEN Call("put", NoQuery, IdOf(task), BodyOf(form.formData))
                              ELSE Call("post", NoQuery, Undefined, BodyOf(form.formData)))
    /\ UNCHANGED dashboard

\* onClose: the modal closes and TaskForm is unmounted.
CloseForm ==
    /\ dashboard.isModalOpen
    /\ dashboard' = [dashboard EXCEPT !.isModalOpen = FALSE, !.editingTask = Null]
    /\ form' = InitialForm
    /\ calls' = Orphaned(calls)

\* handleSubmit without its finally block: loading is reset only after
\* onSuccess().
SubmitSettles_NoFinally(i) ==
    /\ calls[i].op \in {"post", "put"}
    /\ calls[i].answered
    /\ Received
    /\ IF Resolved
       THEN /\ dashboard' = [dashboard EXCEPT !.isModalOpen = FALSE, !.editingTask = Null]
            /\ form' = InitialForm
            /\ calls' = Append(Orphaned(Without(calls, i)),
                               FetchCall(calls[i].priorityFilter, calls[i].statusFilter))
       ELSE /\ calls' = Without(calls, i)
            /\ UNCHANGED <<dashboard, form>>

\* handleSubmit after its await: onSuccess() (handleFormSuccess of the
\* render that sent the request) on success, the toast on failure, and
\* setLoading(false) in both cases.
SubmitSettles(i) ==
    /\ calls[i].op \in {"post", "put"}
    /\ calls[i].answered
    /\ Received
    /\ IF Resolved
       THEN /\ dashboard' = [dashboard EXCEPT !.isModalOpen = FALSE, !.editingTask = Null]
            /\ form' = InitialForm
            /\ calls' = Append(Orphaned(Without(calls, i)),
                               FetchCall(calls[i].priorityFilter, calls[i].statusFilter))
       ELSE /\ form' = IF calls[i].unmounted THEN form
                       ELSE [form EXCEPT !.loading = FALSE]
            /\ calls' = Without(calls, i)
            /\ UNCHANGED dashboard

\* ------------------------------------------------------------ specification
Init ==
    /\ tasks = <<>>
    /\ nextId = 1
    /\ clock = 0
    /\ lastResp = Response("none", "none", NoHeader, Undefined, Undefined, NoQuery, NoBody)
    /\ origin = <<>>
    /\ inflight = [s \in Slots |-> FreeSlot]
    /\ statsRun = StatsIdle
    /\ users = <<>>
    /\ registerResponse = Response("none", "none", NoHeader, Undefined, Undefined, NoQuery, NoBody)
    /\ dashboard = InitialDashboard
    /\ form = InitialForm
    /\ calls = <<>>

\* No response is being sent: the server takes the next request. The
\* handlers of this specification run one request at a time, from the
\* request to its response.
NoResponse == Response("none", "none", NoHeader, Undefined, Undefined, NoQuery, NoBody)
Idle == lastResp = NoResponse

\* The handlers of this specification run from the request to the response
\* with no other request in between.
Serial == Idle /\ UNCHANGED <<inflight, users, registerResponse, client, statsRun>>

Rejected == Serial /\ \E h \in Headers, r \in Routes : AuthReject(h, r)
Create == Serial /\ \E h \in Headers, b \in PostBodies : PostTask(h, b)
Read == Serial /\ \E h \in Headers, id \in PathIds : GetTask(h, id)
Update == Serial /\ \E h \in Headers, id \in PathIds, b \in PutBodies : PutTask(h, id, b)
Delete == Serial /\ \E h \in Headers, id \in PathIds : DeleteTask(h, id)
List == Serial /\ \E h \in Headers, q \in Queries : ListTasks(h, q)
Stats == Serial /\ \E h \in Headers : GetStats(h)
Health == Serial /\ GetHealth
Welcome == Serial /\ GetWelcome

\* The response has been sent.
Deliver ==
    /\ ~Idle
    /\ lastResp' = NoResponse
    /\ UNCHANGED <<tasks, nextId, clock, origin, inflight, users, registerResponse, client, statsRun>>

Next ==
    \/ Rejected \/ Create \/ Read \/ Update \/ Delete \/ List \/ Stats
    \/ Health \/ Welcome \/ Deliver

Spec == Init /\ [][Next]_vars

\* ------------------------------------------- specification: length limits
\* The same service, with request bodies whose strings sit on the limits of
\* the schema: one character below the limit, on it and above it.
BoundaryTitles == {Str(Filler(n)) : n \in (TitleMaxLen - 1)..(TitleMaxLen + 1)}
BoundaryDescriptions ==
    {Str(Filler(n)) : n \in DescriptionMaxLen..(DescriptionMaxLen + 1)}

\* Bodies that carry JSON null for a path the schema constrains.
NullBodies ==
    {[Keyed("title", Str(sB)) EXCEPT !.priority = Null],
     Keyed("status", Null), Keyed("description", Null), Keyed("title", Null)}

BoundaryBodies ==
    NullBodies
    \cup {Keyed("title", t) : t \in BoundaryTitles}
    \cup {Keyed("description", d) : d \in BoundaryDescriptions}
    \cup {[Keyed("description", d) EXCEPT !.title = Str(Filler(TitleMaxLen))] :
            d \in BoundaryDescriptions}

CreateBoundary == Serial /\ \E h \in Headers, b \in BoundaryBodies : PostTask(h, b)
UpdateBoundary ==
    Serial /\ \E h \in Headers, id \in PathIds, b \in BoundaryBodies : PutTask(h, id, b)

NextBoundary == CreateBoundary \/ UpdateBoundary \/ Read \/ Delete \/ Deliver

SpecBoundary == Init /\ [][NextBoundary]_vars

\* ------------------------------------- specification: overlapping requests
\* One user creates tasks and sends two PUT requests whose reads and saves
\* interleave in every order.
OwnerHeader == Header(TRUE, Jwt("good", "live", 1))

OverlapPostBodies == {Keyed("title", Str(sB)), FullBody}

OverlapPutBodies ==
    {Keyed("status", Str(sCompleted)), Keyed("status", Str(sPending)),
     Keyed("priority", Str(sHigh)), Keyed("title", Str(sPadA)),
     [NoBody EXCEPT !.status = Str(sCompleted), !.description = Str(sDesc)]}

CreateOwn ==
    /\ \E b \in OverlapPostBodies : PostTask(OwnerHeader, b)
    /\ UNCHANGED <<inflight, users, registerResponse, client, statsRun>>

StartPut ==
    /\ \E s \in Slots, id \in PathIds, b \in OverlapPutBodies :
          PutFind(s, OwnerHeader, id, b)
    /\ UNCHANGED <<users, registerResponse, client, statsRun>>

FinishPut ==
    /\ \E s \in Slots : PutSave(s)
    /\ UNCHANGED <<users, registerResponse, client, statsRun>>

NextOverlap == CreateOwn \/ StartPut \/ FinishPut

SpecOverlap == Init /\ [][NextOverlap]_vars

\* The owner's updates in two steps with the owner's deletes between them.
DeleteOwn ==
    /\ \E id \in PathIds : DeleteTask(OwnerHeader, id)
    /\ UNCHANGED <<inflight, users, registerResponse, client, statsRun>>

NextRace == CreateOwn \/ StartPut \/ DeleteOwn \/ FinishPut

SpecRace == Init /\ [][NextRace]_vars

\* The owner's statistics request in its four reads, with the owner's
\* creates, updates and deletes between them.
UpdateOwn ==
    /\ \E id \in PathIds, b \in OverlapPutBodies : PutTask(OwnerHeader, id, b)
    /\ UNCHANGED <<inflight, users, registerResponse, client, statsRun>>

StatsStart == ReadStatus(OwnerHeader) /\ UNCHANGED <<inflight, users, registerResponse, client>>
StatsSecond == ReadPriority /\ UNCHANGED <<inflight, users, registerResponse, client>>
StatsThird == ReadCategory /\ UNCHANGED <<inflight, users, registerResponse, client>>
StatsAnswer == ReadTotal /\ UNCHANGED <<inflight, users, registerResponse, client>>

NextStats ==
    \/ CreateOwn \/ UpdateOwn \/ DeleteOwn
    \/ StatsStart \/ StatsSecond \/ StatsThird \/ StatsAnswer

SpecStats == Init /\ [][NextStats]_vars

\* ------------------------------------------- specification: registration
\* A client registers, keeps the response, and presents its token on the
\* protected routes.
sAlice == <<"a", "l", "i", "c", "e">>
sBob == <<"b", "o", "b">>
sMailA == <<"a", "@", "x">>
sMailUpperA == <<"A", "@", "x">>
sMailB == <<"b", "@", "x">>

\* The shortest password the User schema accepts.
PasswordMinLen == 6

\* Bodies of POST /api/auth/register.
RegisterBody(username, email, password) ==
    [username |-> username, email |-> email, password |-> password]

RegisterBodies ==
    {RegisterBody(Str(u), Str(e), Str(Filler(PasswordMinLen))) :
        u \in {sAlice, sBob}, e \in {sMailA, sMailUpperA, sMailB}}
    \cup {RegisterBody(Str(sBob), Str(sMailB), Str(Filler(PasswordMinLen - 1))),
          RegisterBody(Str(sBob), Undefined, Str(Filler(PasswordMinLen))),
          RegisterBody(Undefined, Str(sMailB), Str(Filler(PasswordMinLen)))}

\* A required field is missing, or the password is too short.
RegisterInvalid(body) ==
    \/ ~Truthy(body.username)
    \/ ~Truthy(body.email)
    \/ ~Truthy(body.password)
    \/ Len(body.password.v) < PasswordMinLen

\* The username or the email (compared in lower case) is already taken.
RegisterDuplicate(body) ==
    \E n \in DOMAIN users :
       \/ users[n].username = body.username
       \/ users[n].email = Str(ToLowerCase(body.email.v))

\* The profile of a stored user, as a response carries it.
Profile(u) == [id |-> HexStr(u._id.v[1]), username |-> u.username, email |-> u.email]

\* The token issued to a stored user: signed with the server's secret, not
\* yet expired, its payload the user's identifier.
GenerateToken(u) == Jwt("good", "live", u._id.v[1])

\* POST /api/auth/register
RegisterUser(body) ==
    LET base == Response("handler", "register", NoHeader, Undefined, Undefined,
                         NoQuery, NoBody)
        user == [_id |-> Oid(Len(users) + 1), username |-> body.username,
                 email |-> Str(ToLowerCase(body.email.v))]
    IN  IF RegisterInvalid(body) \/ RegisterDuplicate(body)
        THEN /\ lastResp' = [base EXCEPT !.code = 400, !.status = "error",
                                !.message = "Registration failed"]
             /\ UNCHANGED <<users, registerResponse>>
        ELSE /\ Len(users) + 1 \in Users
             /\ users' = Append(users, user)
             /\ lastResp' = [base EXCEPT !.code = 201, !.status = "success",
                                !.message = "User registered successfully",
                                !.user = Profile(user),
                                !.token = GenerateToken(user)]
             /\ registerResponse' = lastResp'

\* GET /api/auth/me
GetMe(h) ==
    LET identity == Auth(h).user
        base == Response(IF Auth(h).next THEN "handler" ELSE "auth", "me", h,
                         identity, Undefined, NoQuery, NoBody)
        found == {n \in DOMAIN users : users[n]._id = CastObjectId(identity)}
    IN  lastResp' =
          IF ~Auth(h).next
          THEN [base EXCEPT !.code = Auth(h).code, !.status = "error",
                            !.message = Auth(h).message]
          ELSE IF found = {}
          THEN [base EXCEPT !.code = 404, !.status = "error",
                            !.message = "User not found"]
          ELSE [base EXCEPT !.code = 200, !.status = "success",
                            !.user = Profile(users[CHOOSE n \in found : TRUE])]

\* $headers = @{ Authorization = "Bearer $token" }, with the token of the
\* registration response the client holds.
RegisteredHeader == Header(TRUE, registerResponse.token)

Register ==
    /\ Idle
    /\ \E b \in RegisterBodies : RegisterUser(b)
    /\ UNCHANGED <<tasks, nextId, clock, origin, inflight, client, statsRun>>

Me ==
    /\ Idle
    /\ \E h \in {RegisteredHeader, NoHeader} : GetMe(h)
    /\ UNCHANGED <<tasks, nextId, clock, origin, inflight, users, registerResponse, client, statsRun>>

CreateRegistered ==
    Serial /\ \E b \in OverlapPostBodies : PostTask(RegisteredHeader, b)

ListRegistered == Serial /\ ListTasks(RegisteredHeader, NoQuery)

NextRegister == Register \/ Me \/ CreateRegistered \/ ListRegistered \/ Deliver

SpecRegister == Init /\ [][NextRegister]_vars

\* ------------------------------------------ specification: the dashboard
\* The logged-in user's tasks come into the store, the page loads and the
\* user changes the filters. Requests are answered in any order.
Seed ==
    /\ lastResp.by = "none"
    /\ \E b \in OverlapPostBodies : PostTask(ClientHeader, b)
    /\ UNCHANGED <<inflight, users, registerResponse, client, statsRun>>

\* The response to a request that is none of the dashboard's has been sent.
SeedAnswered ==
    /\ lastResp.by # "none"
    /\ \A i \in DOMAIN calls : ~calls[i].answered
    /\ Received
    /\ UNCHANGED client

Load == Mount /\ UNCHANGED <<server, form>>

ChangeFilter ==
    /\ \/ \E v \in PriorityOptions : SelectPriority(v)
       \/ \E v \in StatusOptions : SelectStatus(v)
    /\ UNCHANGED <<server, form>>

PressDelete ==
    /\ \E i \in DOMAIN dashboard.tasks : HandleDelete(IdOf(dashboard.tasks[i]))
    /\ UNCHANGED <<server, form>>

PressConfirm == ConfirmDelete /\ UNCHANGED <<server, form>>

PressCancel == CancelDelete /\ UNCHANGED <<server, form>>

Answer == \E i \in DOMAIN calls : Serve(i)

ListArrives == (\E i \in DOMAIN calls : FetchSettles(i)) /\ UNCHANGED form

DeleteAnswered == (\E i \in DOMAIN calls : DeleteSettles(i)) /\ UNCHANGED form

NextDashboard == Seed \/ SeedAnswered \/ Load \/ ChangeFilter \/ Answer \/ ListArrives

SpecDashboard == Init /\ [][NextDashboard]_vars

\* ------------------------------------ specification: the delete modal
\* The user deletes tasks through the confirmation modal: Delete on a task
\* of the list, then Confirm or Cancel, in any order the page allows.
NextDelete ==
    \/ Seed \/ SeedAnswered \/ Load \/ PressDelete \/ PressConfirm \/ PressCancel
    \/ Answer \/ ListArrives \/ DeleteAnswered

SpecDelete == Init /\ [][NextDelete]_vars

\* ------------------------------------------ specification: the task form
\* The user opens the form to create a task or to edit a listed one, types,
\* submits and closes; requests are answered in any order.
OpenCreate == HandleCreate /\ UNCHANGED server

OpenEdit ==
    /\ \E i \in DOMAIN dashboard.tasks : HandleEdit(dashboard.tasks[i])
    /\ UNCHANGED server

Type == (\E typed \in FormInputs : HandleChange(typed)) /\ UNCHANGED server

Submit ==
    /\ \E west \in BOOLEAN : HandleSubmit(west)
    /\ UNCHANGED server

Close == CloseForm /\ UNCHANGED server

SubmitAnswered == \E i \in DOMAIN calls : SubmitSettles(i)

NextForm ==
    \/ Load \/ OpenCreate \/ OpenEdit \/ Type \/ Submit \/ Close
    \/ Answer \/ SubmitAnswered \/ ListArrives

SpecForm == Init /\ [][NextForm]_vars

\* The request of the browser does not reach the server, or its response
\* does not reach the browser: axios rejects with an error that has no
\* response.
NetworkError ==
    Response("network", "none", NoHeader, Undefined, Undefined, NoQuery, NoBody)

Fail(i) ==
    /\ lastResp.by = "none"
    /\ ~calls[i].answered
    /\ lastResp' = NetworkError
    /\ calls' = [calls EXCEPT ![i].answered = TRUE]
    /\ UNCHANGED <<tasks, nextId, clock, origin, inflight, statsRun, users,
                   registerResponse, dashboard, form>>

Lost == \E i \in DOMAIN calls : Fail(i)

\* The submissions of the form: the user types the valid form or one with a
\* title that is too short, submits, and may close the form; every request
\* is answered or fails, and the handler that awaits it then runs.
SubmitInputs == {ValidFormData, [ValidFormData EXCEPT !.title = Str(Filler(TitleMinLen - 1))]}

TypeThese == (\E typed \in SubmitInputs : HandleChange(typed)) /\ UNCHANGED server

NextSubmit ==
    \/ Load \/ OpenCreate \/ OpenEdit \/ TypeThese \/ Submit \/ Close
    \/ Answer \/ Lost \/ SubmitAnswered \/ ListArrives

SpecSubmit ==
    /\ Init /\ [][NextSubmit]_vars
    /\ WF_vars(Answer) /\ WF_vars(SubmitAnswered) /\ WF_vars(ListArrives)

\* ================================================================ properties
\* The response `r` came from the handler of `route`.
Handled(r, route) == r.by = "handler" /\ r.route = route

\* The identity (token payload id) of the creator of stored task n.
CreatorOf(n) == origin[n].by

\* r answers a GET, PUT or DELETE on /:id for a stored task that another
\* user created.
ForeignRequest(r) ==
    /\ r.by = "handler"
    /\ r.route \in {"get", "put", "delete"}
    /\ \E n \in DOMAIN tasks : r.id = HexStr(n) /\ CreatorOf(n) # r.identity

\* C1: a GET, PUT or DELETE on /tasks/:id for a stored task, issued by an
\* authenticated user other than the one that created it, answers 404
\* 'Task not found' and leaves the store as it was.
C1_ForeignTaskNotFound ==
    [][ForeignRequest(lastResp')
         => /\ lastResp'.code = 404
            /\ lastResp'.status = "error"
            /\ lastResp'.message = "Task not found"
            /\ tasks' = tasks]_vars

C1_Witness ==
    /\ ForeignRequest(lastResp)
    /\ lastResp.route = "delete"
    /\ lastResp.code = 404

\* The filters of a query that carry a non-empty value.
Supplied(q) ==
    {f \in {"status", "priority", "category"} : q[f] \notin {Undefined, Str(<<>>)}}

\* The stored tasks `identity` created that equal every supplied filter.
OwnMatching(identity, q) ==
    {tasks[n] : n \in {m \in DOMAIN tasks :
                          /\ CreatorOf(m) = identity
                          /\ \A f \in Supplied(q) : tasks[m][f] = q[f]}}

Verified(h) ==
    /\ h.present
    /\ h.token.kind = "jwt"
    /\ h.token.sig = "good"
    /\ h.token.exp = "live"

\* C3: a /api/tasks request reaches a route handler exactly when its token verifies,
\* and then the handler's identity is the one in the token; any other
\* request is answered by the middleware, and the store changes only in a
\* step of a handler.
C3_OnlyVerifiedReachHandlers ==
    [][/\ (lastResp = NoResponse /\ lastResp'.route \in Routes)
            => IF Verified(lastResp'.header)
               THEN /\ lastResp'.by = "handler"
                    /\ lastResp'.identity = lastResp'.header.token.id
               ELSE /\ lastResp'.by = "auth"
                    /\ lastResp'.code = 401
                    /\ lastResp'.status = "error"
                    /\ tasks' = tasks
       /\ tasks' # tasks
            => lastResp'.by = "handler" /\ Verified(lastResp'.header)]_vars

C3_Witness ==
    /\ lastResp.by = "auth"
    /\ lastResp.route = "delete"
    /\ lastResp.header.token.sig = "bad"
    /\ DOMAIN tasks # {}

\* C4: a task enters the store only by POST /tasks, owned by the user of the
\* verified token whatever the body says, and no step changes the owner of
\* a stored task.
C4_OwnerIsCreator ==
    [][\A n \in DOMAIN tasks' :
          IF n \in DOMAIN tasks
          THEN tasks'[n].user = tasks[n].user
          ELSE /\ Handled(lastResp', "post")
               /\ \E u \in Users :
                     /\ lastResp'.header.token.id = HexStr(u)
                     /\ tasks'[n].user = Oid(u)]_vars

C4_Witness ==
    /\ Handled(lastResp, "post")
    /\ lastResp.code = 201
    /\ lastResp.body.user = HexStr(2)
    /\ lastResp.identity = HexStr(1)
    /\ lastResp.task.user = Oid(1)
    /\ lastResp.identity = HexStr(1)
    /\ lastResp.task.user = Oid(1)

\* The sum of the values of a counts object.
RECURSIVE SumOver(_, _)
SumOver(obj, keys) ==
    IF keys = {} THEN 0
    ELSE LET k == CHOOSE x \in keys : TRUE
         IN  obj[k] + SumOver(obj, keys \ {k})
SumValues(obj) == SumOver(obj, DOMAIN obj)

\* The stored tasks `identity` created.
OwnTasks(identity) == {n \in DOMAIN tasks : CreatorOf(n) = identity}
CountWhere(identity, path, s) ==
    Cardinality({n \in OwnTasks(identity) : tasks[n][path] = Str(s)})

\* C5: in the answer of GET /tasks/stats, total is the sum of the values
\* of byStatus and is the count GET /tasks answers the same user with no
\* filters.
C5_StatsTotalIsSumAndCount ==
    (Handled(lastResp, "stats") /\ lastResp.code = 200)
      => /\ lastResp.stats.total = SumValues(lastResp.stats.byStatus)
         /\ \A found \in FindSorted(tasks, lastResp.identity, NoQuery) :
               lastResp.stats.total = Len(found)

kPending == <<"p", "e", "n", "d", "i", "n", "g">>
kInProgress == <<"i", "n", "-", "p", "r", "o", "g", "r", "e", "s", "s">>
kCompleted == <<"c", "o", "m", "p", "l", "e", "t", "e", "d">>
kHigh == <<"h", "i", "g", "h">>
kMedium == <<"m", "e", "d", "i", "u", "m">>
kLow == <<"l", "o", "w">>

\* C6: byStatus has exactly the keys pending, in-progress, completed and
\* byPriority exactly high, medium, low, each with the number of the
\* caller's tasks that have that status or priority.
C6_StatsCountPerValue ==
    (Handled(lastResp, "stats") /\ lastResp.code = 200)
      => LET u == lastResp.identity
             byStatus == lastResp.stats.byStatus
             byPriority == lastResp.stats.byPriority
         IN  /\ DOMAIN byStatus = {kPending, kInProgress, kCompleted}
             /\ byStatus[kPending] = CountWhere(u, "status", sPending)
             /\ byStatus[kInProgress] = CountWhere(u, "status", sInProgress)
             /\ byStatus[kCompleted] = CountWhere(u, "status", sCompleted)
             /\ DOMAIN byPriority = {kHigh, kMedium, kLow}
             /\ byPriority[kHigh] = CountWhere(u, "priority", sHigh)
             /\ byPriority[kMedium] = CountWhere(u, "priority", sMedium)
             /\ byPriority[kLow] = CountWhere(u, "priority", sLow)

\* C7: topCategories lists min(5, distinct categories of the caller's
\* tasks) entries, each with the number of the caller's tasks in that
\* category, in non-increasing order of count, and no category left out
\* has more tasks than a listed one.
C7_TopCategories ==
    (Handled(lastResp, "stats") /\ lastResp.code = 200)
      => LET u == lastResp.identity
             top == lastResp.stats.topCategories
             cats == {tasks[n].category : n \in OwnTasks(u)}
             CountOf(c) == Cardinality({n \in OwnTasks(u) : tasks[n].category = c})
         IN  /\ Len(top) = IF Cardinality(cats) < 5 THEN Cardinality(cats) ELSE 5
             /\ \A i \in DOMAIN top :
                   top[i].key \in cats /\ top[i].count = CountOf(top[i].key)
             /\ \A i, j \in DOMAIN top :
                   /\ i # j => top[i].key # top[j].key
                   /\ i < j => top[i].count >= top[j].count
             /\ \A c \in cats :
                   (\A i \in DOMAIN top : top[i].key # c)
                      => \A i \in DOMAIN top : top[i].count >= CountOf(c)

\* What the service holds for user a and answers a's reads with: the tasks
\* a created, GET /tasks under every query, and GET /tasks/stats.
Visible(store, a) ==
    [stored |-> {store[n] : n \in {m \in DOMAIN store : store[m].user = Oid(a)}},
     lists |-> [q \in Queries |-> FindSorted(store, HexStr(a), q)],
     stats |-> StatsAnswers(store, HexStr(a))]

\* C8: a POST, PUT or DELETE handled for one user leaves every task that
\* another user created in the store unchanged, and with it what GET /tasks
\* (any query) and GET /tasks/stats answer that other user. (A step that
\* leaves the whole store as it was satisfies this at once.)
C8_OtherUsersUntouched ==
    [][(/\ lastResp'.by = "handler"
        /\ lastResp'.route \in {"post", "put", "delete"}
        /\ tasks' # tasks)
         => \A a \in Users :
               HexStr(a) # lastResp'.identity
                 => Visible(tasks', a) = Visible(tasks, a)]_vars

C8_Witness ==
    /\ Handled(lastResp, "put")
    /\ lastResp.code = 200
    /\ lastResp.task.updatedAt # lastResp.task.createdAt
    /\ \E n \in DOMAIN tasks : CreatorOf(n) # lastResp.identity

\* r answers a PUT on /:id for stored task n, issued by its creator.
OwnPut(r, n) ==
    /\ Handled(r, "put")
    /\ r.id = HexStr(n)
    /\ CreatorOf(n) = r.identity

\* The value a key of a PUT body gives its field.
SentValue(f, x) ==
    CASE f \in {"title", "description", "category"} /\ IsString(x) -> Str(Trim(x.v))
      [] f = "dueDate" -> IF x \in {Null, Str(<<>>)} THEN Null ELSE ParseDate(x)
      [] OTHER -> x

\* C9: a PUT by the creator that answers 200 gives every field whose key is
\* in the body the value sent and leaves every other field, the id, the
\* owner, createdAt and every other task unchanged; an empty body answers
\* 200; a PUT that does not answer 200 changes nothing.
C9_UpdateChangesOnlySentFields ==
    [][\A n \in DOMAIN tasks :
          OwnPut(lastResp', n)
            => /\ (\A f \in Fields : lastResp'.body[f] = Undefined)
                     => lastResp'.code = 200
               /\ IF lastResp'.code = 200
                  THEN /\ DOMAIN tasks' = DOMAIN tasks
                       /\ \A f \in Fields :
                             tasks'[n][f] = IF lastResp'.body[f] = Undefined
                                            THEN tasks[n][f]
                                            ELSE SentValue(f, lastResp'.body[f])
                       /\ \A f \in {"_id", "user", "createdAt"} :
                             tasks'[n][f] = tasks[n][f]
                       /\ (\A f \in Fields : tasks'[n][f] = tasks[n][f])
                             => tasks'[n] = tasks[n]
                       /\ \A m \in DOMAIN tasks \ {n} : tasks'[m] = tasks[m]
                       /\ lastResp'.task = tasks'[n]
                  ELSE tasks' = tasks]_vars

C9_Witness ==
    /\ Handled(lastResp, "put")
    /\ lastResp.code = 200
    /\ lastResp.body.status # Undefined
    /\ lastResp.body.description # Undefined
    /\ lastResp.body.title = Undefined
    /\ lastResp.task.title = Str(sA)
    /\ lastResp.task.priority = Str(sMedium)
    /\ lastResp.task.updatedAt # lastResp.task.createdAt

\* The body carries a title and no other key.
TitleOnly(b) == b.title # Undefined /\ [b EXCEPT !.title = Undefined] = NoBody

\* The tasks a GET /tasks/:id or GET /tasks answer carries.
ReadBack(r) ==
    IF Handled(r, "get") /\ r.code = 200 THEN {r.task}
    ELSE IF Handled(r, "list") THEN {r.tasks[i] : i \in DOMAIN r.tasks}
    ELSE {}

\* d is read by its creator, was created from a title alone and has not
\* been updated since.
FreshTitleOnly(d) ==
    /\ d._id.v[1] \in DOMAIN origin
    /\ origin[d._id.v[1]].by = lastResp.identity
    /\ TitleOnly(origin[d._id.v[1]].body)
    /\ d.updatedAt = d.createdAt

HasDefaults(d) ==
    /\ d.category = Str(sGeneral)
    /\ d.priority = Str(sMedium)
    /\ d.status = Str(sPending)

\* C10 as stated: a task created from a title alone reads back with category
\* General, priority Medium, status Pending and the title that was sent.
C10_RoundTripTitleAsSent ==
    \A d \in ReadBack(lastResp) :
       FreshTitleOnly(d)
         => HasDefaults(d) /\ d.title = origin[d._id.v[1]].body.title

\* C10 as amended: a task created from a title alone reads back with
\* category General, priority Medium, status Pending and the title that was
\* sent without its leading and trailing whitespace.
C10_RoundTripTitleTrimmed ==
    \A d \in ReadBack(lastResp) :
       FreshTitleOnly(d)
         => HasDefaults(d) /\ d.title = Str(Trim(origin[d._id.v[1]].body.title.v))

C10_Witness ==
    /\ Handled(lastResp, "get")
    /\ lastResp.code = 200
    /\ FreshTitleOnly(lastResp.task)
    /\ origin[lastResp.task._id.v[1]].body.title = Str(sPadA)
    /\ lastResp.task.title = Str(sA)
    /\ HasDefaults(lastResp.task)

\* The title of a body is absent, empty, or empty once trimmed.
TitleMissing(b) ==
    \/ b.title = Undefined
    \/ IsString(b.title) /\ Trim(b.title.v) = <<>>

\* C11: POST /tasks whose title is absent, empty or only whitespace answers
\* 400 with an error envelope, and no task is added to the store.
C11_MissingTitleAnswers400 ==
    [][(Handled(lastResp', "post") /\ TitleMissing(lastResp'.body))
         => /\ lastResp'.code = 400
            /\ lastResp'.status = "error"
            /\ lastResp'.message # ""
            /\ tasks' = tasks]_vars

\* C12: POST /tasks with a title (alone) of exactly 100 characters answers 201 and
\* stores the task; with a title of 101 characters it answers 400 and
\* nothing is stored.
C12_TitleLengthBoundary ==
    [][(/\ Handled(lastResp', "post")
        /\ TitleOnly(lastResp'.body)
        /\ IsString(lastResp'.body.title))
         => /\ Len(lastResp'.body.title.v) = 100
                 => /\ lastResp'.code = 201
                    /\ \E n \in DOMAIN tasks' \ DOMAIN tasks :
                          /\ tasks'[n] = lastResp'.task
                          /\ tasks'[n].title = lastResp'.body.title
            /\ Len(lastResp'.body.title.v) = 101
                 => /\ lastResp'.code = 400
                    /\ tasks' = tasks]_vars

\* C13: POST /tasks (with a title) whose dueDate is present and is no date
\* answers 400 and stores nothing; with a date string the stored dueDate is
\* the parsed date; without dueDate the task is stored without a due date.
C13_DueDateOnCreate ==
    [][(Handled(lastResp', "post") /\ lastResp'.body.title = Str(sB))
         => LET due == lastResp'.body.dueDate
                Stored(d) == /\ lastResp'.code = 201
                             /\ \E n \in DOMAIN tasks' \ DOMAIN tasks :
                                   tasks'[n].dueDate = d
            IN  /\ due = Str(sGarbage)
                     => lastResp'.code = 400 /\ tasks' = tasks
                /\ (due = Str(sDay1) /\ lastResp'.body = FullBody)
                     => Stored(Date(1))
                /\ lastResp'.body = Keyed("title", Str(sB))
                     => Stored(Undefined)]_vars

\* r answers a GET, PUT or DELETE on /:id.
ById(r) == r.by = "handler" /\ r.route \in {"get", "put", "delete"}

\* The caller of r created no stored task with the id r addresses.
NothingOwned(r) ==
    ~\E n \in DOMAIN tasks : r.id = HexStr(n) /\ CreatorOf(n) = r.identity

\* C14: GET, PUT and DELETE on /tasks/:id answer 404 with an error envelope
\* whenever no task with that id is owned by the caller, whatever the id
\* (never issued, deleted, not a record identifier), and the store is
\* unchanged.
C14_UnknownIdAnswers404 ==
    [][(ById(lastResp') /\ NothingOwned(lastResp'))
         => /\ lastResp'.code = 404
            /\ lastResp'.status = "error"
            /\ lastResp'.message # ""
            /\ tasks' = tasks]_vars

\* The ids of the tasks that were stored and have been deleted.
Deleted == {n \in 1..(nextId - 1) : n \notin DOMAIN tasks}

\* C15: DELETE /tasks/:id by the owner answers 200 with the task as it was,
\* removes that task alone and leaves the others unchanged; a deleted task
\* never returns to the store, GET, PUT and DELETE for its id answer 404,
\* GET /tasks does not list it and the stats total counts stored tasks only.
C15_DeleteIsFinal ==
    [][/\ \A n \in DOMAIN tasks :
             (/\ Handled(lastResp', "delete")
              /\ lastResp'.id = HexStr(n)
              /\ CreatorOf(n) = lastResp'.identity)
               => /\ lastResp'.code = 200
                  /\ lastResp'.status = "success"
                  /\ lastResp'.task = tasks[n]
                  /\ DOMAIN tasks' = DOMAIN tasks \ {n}
                  /\ \A m \in DOMAIN tasks' : tasks'[m] = tasks[m]
       /\ \A n \in Deleted :
             /\ n \notin DOMAIN tasks'
             /\ (ById(lastResp') /\ lastResp'.id = HexStr(n))
                  => lastResp'.code = 404 /\ tasks' = tasks
             /\ Handled(lastResp', "list")
                  => \A i \in DOMAIN lastResp'.tasks : lastResp'.tasks[i]._id # Oid(n)
       /\ (Handled(lastResp', "stats") /\ lastResp'.code = 200)
             => lastResp'.stats.total = Cardinality(OwnTasks(lastResp'.identity))]_vars

C15_Witness ==
    /\ Handled(lastResp, "delete")
    /\ lastResp.code = 404
    /\ \E n \in Deleted : lastResp.id = HexStr(n)
    /\ DOMAIN tasks # {}

\* What is wrong with the token of a header, if anything.
TokenProblem(h) ==
    CASE ~h.present \/ h.token.kind = "empty" -> "missing"
      [] h.token.sig # "good" -> "signature"
      [] h.token.exp # "live" -> "expired"
      [] OTHER -> "none"

\* Every response to a /api/tasks request with a token problem is a 401 error envelope
\* of the middleware whose message is the one `text` gives for the problem.
TokenFailuresAnswered(text) ==
    (lastResp.route \in Routes /\ TokenProblem(lastResp.header) # "none")
      => /\ lastResp.by = "auth"
         /\ lastResp.code = 401
         /\ lastResp.status = "error"
         /\ lastResp.message = text[TokenProblem(lastResp.header)]

\* C16 as stated: a token failure answers 401 with an error envelope whose
\* message is "No token provided" without a token, "Invalid token" for a bad
\* signature and "Token expired" past the expiry; never another code.
C16_TokenFailuresAsStated ==
    TokenFailuresAnswered([missing |-> "No token provided",
                           signature |-> "Invalid token",
                           expired |-> "Token expired"])

\* C16 as amended: a token failure answers 401 with an error envelope whose
\* message is "Access denied. No token provided." without a token,
\* "Invalid token." for a bad signature and "Token expired." past the
\* expiry; never another code.
C16_TokenFailuresAnswer401 ==
    TokenFailuresAnswered([missing |-> "Access denied. No token provided.",
                           signature |-> "Invalid token.",
                           expired |-> "Token expired."])

C16_Witness ==
    /\ lastResp.by = "auth"
    /\ lastResp.route = "post"
    /\ TokenProblem(lastResp.header) = "expired"
    /\ lastResp.code = 401
    /\ lastResp.message = "Token expired."

\* C17: every response the server sends has a status of "success" or
\* "error", an error response carries a message, and the status is
\* "success" exactly when the HTTP code is 2xx.
C17_ResponseEnvelope ==
    lastResp # NoResponse
      => /\ lastResp.status \in {"success", "error"}
         /\ lastResp.status = "error" => lastResp.message # ""
         /\ lastResp.status = "success" <=> lastResp.code \in 200..299

\* The string x, once trimmed, is longer than n characters.
LongerThan(x, n) == IsString(x) /\ Len(Trim(x.v)) > n

\* The body carries a value the Task schema does not accept: an over-long
\* title or description, a priority or status outside the enum, a dueDate
\* that is no date; for POST also a missing title, for PUT a blank one.
InvalidInput(route, b) ==
    \/ route = "post" /\ TitleMissing(b)
    \/ route = "put" /\ b.title # Undefined /\ TitleMissing(b)
    \/ LongerThan(b.title, 100)
    \/ LongerThan(b.description, 500)
    \/ IsString(b.priority) /\ b.priority.v \notin {sHigh, sMedium, sLow}
    \/ IsString(b.status) /\ b.status.v \notin {sPending, sInProgress, sCompleted}
    \/ b.dueDate \in {Str(sGarbage)}

\* C18: a POST /tasks or PUT /tasks/:id whose input is invalid is rejected
\* and writes nothing: the store after the request is the store before it.
C18_InvalidInputWritesNothing ==
    [][(/\ lastResp'.by = "handler"
        /\ lastResp'.route \in {"post", "put"}
        /\ InvalidInput(lastResp'.route, lastResp'.body))
         => /\ tasks' = tasks
            /\ lastResp'.status = "error"
            /\ lastResp'.code \notin 200..299]_vars

C18_Witness ==
    /\ Handled(lastResp, "put")
    /\ lastResp.body.priority = Str(sUrgent)
    /\ lastResp.code = 500
    /\ \E n \in DOMAIN tasks :
          /\ lastResp.id = HexStr(n)
          /\ CreatorOf(n) = lastResp.identity
          /\ tasks[n].priority = Str(sHigh)

\* Slots a and b hold answered PUT requests for the same stored task that
\* both read it before either saved, and a was answered first.
Overlapped(a, b) ==
    /\ inflight[a].phase = "done" /\ inflight[b].phase = "done"
    /\ inflight[a].loaded # NoTask /\ inflight[b].loaded # NoTask
    /\ inflight[a].loaded._id = inflight[b].loaded._id
    /\ inflight[a].seen = 0 /\ inflight[b].seen = 0
    /\ inflight[a].order < inflight[b].order
    /\ inflight[a].loaded._id.v[1] \in DOMAIN tasks

\* C19: two overlapping PUT requests of the owner on one task both answer
\* 200, and the stored task then holds, for a field both sent, the value of
\* the request that saved last, for a field one sent, that value, and for
\* any other field the value it had before.
C19_OverlappingPutsLastWriteWins ==
    \A a, b \in Slots :
       Overlapped(a, b)
         => LET first == inflight[a]
                last == inflight[b]
                stored == tasks[first.loaded._id.v[1]]
            IN  /\ first.code = 200
                /\ last.code = 200
                /\ \A f \in Fields :
                      stored[f] =
                        IF last.body[f] # Undefined THEN SentValue(f, last.body[f])
                        ELSE IF first.body[f] # Undefined
                        THEN SentValue(f, first.body[f])
                        ELSE first.loaded[f]
\* The client holds the response of a successful registration.
HoldsRegistration == registerResponse.code = 201

\* The stored user the held registration response describes.
RegisteredUser ==
    users[CHOOSE n \in DOMAIN users : Profile(users[n]) = registerResponse.user]

\* C20: after every successful registration the returned token, sent as a
\* Bearer token, passes the authentication middleware with the identifier
\* of the user just created as its identity; GET /auth/me with the token
\* answers 200 with that user's profile; and a task created with it is
\* stored with that user as its owner.
C20_RegistrationTokenIdentifiesUser ==
    [][/\ (lastResp'.route = "register" /\ lastResp'.code = 201)
          => /\ Len(users') = Len(users) + 1
             /\ lastResp'.user = Profile(users'[Len(users')])
             /\ Auth(Header(TRUE, lastResp'.token)).next
             /\ Auth(Header(TRUE, lastResp'.token)).user = lastResp'.user.id
       /\ (HoldsRegistration /\ lastResp'.route = "me"
             /\ lastResp'.header = RegisteredHeader)
          => /\ lastResp'.code = 200
             /\ lastResp'.user = registerResponse.user
             /\ lastResp'.user = Profile(RegisteredUser)
       /\ (HoldsRegistration /\ Handled(lastResp', "post") /\ lastResp'.code = 201
             /\ lastResp'.header = RegisteredHeader)
          => /\ lastResp'.task.user = RegisteredUser._id
             /\ tasks'[nextId].user = RegisteredUser._id
             /\ \A n \in DOMAIN users' :
                   n # RegisteredUser._id.v[1]
                     => Visible(tasks', n) = Visible(tasks, n)
      ]_vars

\* The second user to register has created a task with the token of the
\* registration response, and the first user owns a task too.
C20_Witness ==
    /\ HoldsRegistration
    /\ Len(users) = 2
    /\ registerResponse.user.id = HexStr(2)
    /\ Handled(lastResp, "post") /\ lastResp.code = 201
    /\ lastResp.header = RegisteredHeader
    /\ lastResp.task.user = Oid(2)
    /\ \E n \in DOMAIN tasks : tasks[n].user = Oid(1)

\* The stored document satisfies what the Task schema declares for its
\* title, description, priority, status and owner.
WellFormed(task) ==
    /\ IsString(task.title)
    /\ task.title.v # <<>>
    /\ Trim(task.title.v) = task.title.v
    /\ Len(task.title.v) <= TitleMaxLen
    /\ IsString(task.description) => Len(task.description.v) <= DescriptionMaxLen
    /\ IsString(task.priority) /\ task.priority.v \in {sHigh, sMedium, sLow}
    /\ IsString(task.status) /\ task.status.v \in {sPending, sInProgress, sCompleted}
    /\ task.user \in {Oid(u) : u \in Users}

\* C21: in every reachable state every stored task has a non-empty trimmed
\* title of at most 100 characters, a description of at most 500
\* characters, a priority in {High, Medium, Low}, a status in {Pending,
\* In Progress, Completed} and an owner.
C21_StoredTasksWellFormed == \A n \in DOMAIN tasks : WellFormed(tasks[n])

\* The identity of the logged-in user.
ClientIdentity == Auth(ClientHeader).user

\* The dashboard is at rest and up to date: no request is outstanding and
\* the displayed list is what GET /tasks answers now for the selected
\* filters.
DashboardCurrent ==
    /\ dashboard.mounted
    /\ calls = <<>>
    /\ dashboard.shown = FetchParams(dashboard.priorityFilter, dashboard.statusFilter)
    /\ dashboard.tasks \in FindSorted(tasks, ClientIdentity, dashboard.shown)

\* C22: the statistics cards show the counts of all of the logged-in
\* user's tasks (Total) and of those with status Pending, In Progress and
\* Completed, whatever priority or status filter is selected in the list.
C22_CardsCountAllTasks ==
    DashboardCurrent
      => /\ dashboard.stats.total = Cardinality(OwnTasks(ClientIdentity))
         /\ dashboard.stats.pending = CountWhere(ClientIdentity, "status", sPending)
         /\ dashboard.stats.inProgress = CountWhere(ClientIdentity, "status", sInProgress)
         /\ dashboard.stats.completed = CountWhere(ClientIdentity, "status", sCompleted)

\* The position of a task's dueDate in the store's ordering: a task with no
\* due date comes before every dated one.
DueKey(task) == IF task.dueDate.t = "date" THEN task.dueDate.v[1] ELSE 0

CreatedKey(task) == task.createdAt.v[1]

DueKeys(list) == [i \in DOMAIN list |-> DueKey(list[i])]
CreatedKeys(list) == [i \in DOMAIN list |-> CreatedKey(list[i])]

\* The keys are in non-decreasing (non-increasing) order.
Ascending(keys) == \A i, j \in DOMAIN keys : i < j => keys[i] <= keys[j]
Descending(keys) == \A i, j \in DOMAIN keys : i < j => keys[i] >= keys[j]

\* C23: GET /tasks with no sortBy lists newest first whatever `order` is;
\* with sortBy = dueDate it lists by due date, descending exactly when
\* order = 'desc' and ascending otherwise; and the tasks listed are the
\* ones the filters select, whatever the sort.
C23_ListOrderedAsRequested ==
    Handled(lastResp, "list")
      => LET q == lastResp.query
             list == lastResp.tasks
         IN  /\ ~Truthy(q.sortBy) => Descending(CreatedKeys(list))
             /\ (q.sortBy = Str(sDueDate) /\ q.order = Str(sDesc2))
                   => Descending(DueKeys(list))
             /\ (q.sortBy = Str(sDueDate) /\ q.order # Str(sDesc2))
                   => Ascending(DueKeys(list))
             /\ {list[i] : i \in DOMAIN list}
                   = {tasks[n] : n \in Find(tasks, lastResp.identity,
                                            [q EXCEPT !.sortBy = Undefined,
                                                      !.order = Undefined])}

\* Two tasks with different due dates have been listed by due date,
\* descending.
C23_Witness ==
    /\ Handled(lastResp, "list")
    /\ lastResp.query.sortBy = Str(sDueDate)
    /\ lastResp.query.order = Str(sDesc2)
    /\ Len(lastResp.tasks) = 2
    /\ DueKey(lastResp.tasks[1]) > DueKey(lastResp.tasks[2])
    /\ CreatedKey(lastResp.tasks[1]) > CreatedKey(lastResp.tasks[2])

\* The Authorization header does not have the form 'Bearer <token>': it is
\* absent, lacks the scheme prefix, or has nothing after the prefix.
NotBearerForm(h) == ~h.present \/ ~h.scheme \/ h.token.kind = "empty"

\* C24: a request to a task route whose Authorization header is not of the
\* form 'Bearer <token>' (a valid token without the 'Bearer ' prefix, or
\* 'Bearer ' with nothing after it) is answered 401 by the middleware and
\* does not reach the handler.
C24_BearerSchemeRequired ==
    (lastResp.route \in Routes /\ NotBearerForm(lastResp.header))
      => lastResp.by = "auth" /\ lastResp.code = 401

\* ---------------------------------------------------------------- C25
\* The fields validateForm rejects whatever the browser's time zone is.
InvalidFields(formData) == ValidateForm(formData, Today, FALSE)

\* A step of handleSubmit: the form, which was not waiting for a response,
\* stays open on the same field values and changes its errors or starts to
\* wait.
SubmitStep ==
    /\ dashboard.isModalOpen /\ dashboard'.isModalOpen
    /\ ~form.loading
    /\ form'.formData = form.formData
    /\ form' # form

\* The request a step sends for the form.
FormRequestSent == WritesAhead' > WritesAhead
SentCall == calls'[Len(calls')]

\* C25: the task form sends POST /tasks or PUT /tasks/:id only with the
\* current field values and only when they are valid (title of 3..100
\* characters, description of 10..500, category of at least 2, a due date
\* that is present and not before today); a submit with an invalid field
\* records the errors of the invalid fields and sends nothing; the request
\* is a PUT, to the task the form was opened on, exactly when the form was
\* opened on an existing task.
C25_FormSendsOnlyValidatedValues ==
    [][/\ FormRequestSent =>
            /\ SubmitStep
            /\ SentCall.body = BodyOf(form.formData)
            /\ Len(Trim(SentCall.body.title.v)) \in TitleMinLen..TitleMaxLen
            /\ Len(SentCall.body.title.v) <= TitleMaxLen
            /\ Len(Trim(SentCall.body.description.v)) \in
                   DescriptionMinLen..DescriptionMaxLen
            /\ Len(SentCall.body.description.v) <= DescriptionMaxLen
            /\ Len(Trim(SentCall.body.category.v)) >= CategoryMinLen
            /\ SentCall.body.dueDate.v # <<>>
            /\ ParseDate(SentCall.body.dueDate).v[1] >= Today
            /\ InvalidFields(form.formData) = {}
            /\ form'.errors = {}
            /\ (SentCall.op = "put") <=> (dashboard.editingTask # Null)
            /\ (SentCall.op = "post") <=> (dashboard.editingTask = Null)
            /\ SentCall.op = "put" => SentCall.id = IdOf(dashboard.editingTask)
       /\ (SubmitStep /\ InvalidFields(form.formData) # {}) =>
            /\ InvalidFields(form.formData) \subseteq form'.errors
            /\ calls' = calls
            /\ ~form'.loading]_vars

\* An update sent by the form is on its way while the form, opened again,
\* shows the errors of a rejected submit.
C25_Witness ==
    /\ \E i \in DOMAIN calls : calls[i].op = "put" /\ ~calls[i].answered
    /\ form.errors # {}
    /\ InvalidFields(form.formData) # {}

\* ---------------------------------------------------------------- C26
\* The DELETE requests the dashboard still awaits.
DeletesAhead == Cardinality({i \in DOMAIN calls : calls[i].op = "delete"})

\* The modal is open exactly when a task to delete is recorded.
ModalMatchesTask(d) == d.deleteModalOpen <=> d.taskToDelete # Null

\* C26: a DELETE is sent only from the open confirmation modal and for the
\* task chosen by the latest press of Delete; a cancel sends nothing; the
\* modal is open exactly when a task to delete is recorded; a failed DELETE
\* leaves the modal and the recorded task as they are, a successful DELETE
\* and a cancel clear both.
C26_DeleteOnlyAfterConfirmation ==
    [][/\ ModalMatchesTask(dashboard) /\ ModalMatchesTask(dashboard')
       /\ (~dashboard.deleteModalOpen /\ dashboard'.deleteModalOpen) =>
            /\ \E i \in DOMAIN dashboard.tasks :
                   dashboard'.taskToDelete = IdOf(dashboard.tasks[i])
            /\ calls' = calls
       /\ (dashboard.deleteModalOpen /\ dashboard'.deleteModalOpen) =>
            dashboard'.taskToDelete = dashboard.taskToDelete
       /\ DeletesAhead' > DeletesAhead =>
            /\ dashboard.deleteModalOpen
            /\ dashboard.taskToDelete # Null
            /\ calls'[Len(calls')].op = "delete"
            /\ calls'[Len(calls')].id = dashboard.taskToDelete
            /\ DeletesAhead' = DeletesAhead + 1
       /\ (DeletesAhead' < DeletesAhead /\ ~Resolved) => dashboard' = dashboard
       /\ (DeletesAhead' < DeletesAhead /\ Resolved) =>
            /\ ~dashboard'.deleteModalOpen
            /\ dashboard'.taskToDelete = Null
       /\ (dashboard.deleteModalOpen /\ ~dashboard'.deleteModalOpen
             /\ DeletesAhead' = DeletesAhead) =>
            /\ calls' = calls
            /\ dashboard'.taskToDelete = Null]_vars

\* A DELETE sent from the modal has failed with 404 while the modal is open
\* on the same task.
C26_Witness ==
    \E i \in DOMAIN calls :
        /\ calls[i].op = "delete"
        /\ calls[i].answered
        /\ lastResp.code = 404
        /\ dashboard.deleteModalOpen
        /\ dashboard.taskToDelete = calls[i].id

\* ---------------------------------------------------------------- C27
\* The task an update loaded is no longer stored: a DELETE removed it after
\* the update read it (identifiers are not used again).
LoadedIsDeleted(s) ==
    /\ inflight[s].phase = "loaded"
    /\ inflight[s].loaded._id.v[1] \notin DOMAIN tasks

\* C27: an update that loaded a task which a DELETE removed before the
\* update saves does not answer 200 and does not store the task; a DELETE
\* answered with 200 leaves its task absent, and a task that is absent after
\* having been created is absent in every later state.
C27_DeletedTaskStaysDeleted ==
    [][/\ \A s \in Slots :
            (LoadedIsDeleted(s) /\ inflight'[s].phase = "done") =>
                /\ inflight'[s].code # 200
                /\ lastResp'.code # 200
                /\ tasks' = tasks
       /\ (lastResp' # lastResp /\ lastResp'.route = "delete" /\ lastResp'.code = 200) =>
            HexNum(lastResp'.id) \notin DOMAIN tasks'
       /\ \A n \in 1..(nextId - 1) :
            n \notin DOMAIN tasks => n \notin DOMAIN tasks']_vars

\* An update that loaded a task has answered 500 after the task was deleted.
C27_Witness ==
    \E s \in Slots :
        /\ inflight[s].phase = "done"
        /\ inflight[s].loaded # NoTask
        /\ inflight[s].code = 500
        /\ inflight[s].loaded._id.v[1] \notin DOMAIN tasks
        /\ ValidationErrors(ApplyBody(inflight[s].loaded, inflight[s].body),
                            Fields) = {}

\* ---------------------------------------------------------------- C28
\* C28: every 200 answer of GET /tasks/stats describes one state of the
\* caller's tasks: its total is the sum of byStatus and the sum of
\* byPriority, also when the caller's own writes complete between the four
\* reads of the handler.
C28_StatsDescribeOneState ==
    (Handled(lastResp, "stats") /\ lastResp.code = 200)
      => /\ lastResp.stats.total = SumValues(lastResp.stats.byStatus)
         /\ lastResp.stats.total = SumValues(lastResp.stats.byPriority)

\* ---------------------------------------------------------------- C29
\* The GET /tasks requests of the dashboard that have not settled.
FetchesAhead == {i \in DOMAIN calls : calls[i].op = "fetch"}

\* C29: once every GET /tasks request of the dashboard has been answered
\* and its response applied, the displayed list is the response to the
\* request made with the selected priority and status filters.
C29_ListShowsCurrentFilters ==
    (dashboard.mounted /\ FetchesAhead = {})
      => dashboard.shown = FetchParams(dashboard.priorityFilter, dashboard.statusFilter)

\* ---------------------------------------------------------------- C30
\* The request of the form whose response has arrived.
SettledCall ==
    calls[CHOOSE i \in DOMAIN calls : calls[i].op \in {"post", "put"} /\ calls[i].answered]

\* A step in which handleSubmit continues after its await.
SubmitSettled == WritesAhead' < WritesAhead

\* The calls of fetchTasks() that have not settled: handleFormSuccess, the
\* onSuccess of the form, adds one.
FetchCount == Cardinality({i \in DOMAIN calls : calls[i].op = "fetch"})

\* C30: a submission that passes validation sets loading in the step that
\* sends the request; when the request has succeeded onSuccess runs once
\* (the modal closes and one fetchTasks() is sent), when it has failed
\* onSuccess does not run and the form stays as it is, open with the entered
\* values and with loading reset; and a form that is loading eventually is
\* not loading.
C30_SubmissionEndsLoading ==
    /\ [][/\ FormRequestSent => (~form.loading /\ form'.loading)
          /\ (form'.loading /\ ~form.loading) => FormRequestSent
          /\ (SubmitSettled /\ Resolved) =>
                /\ FetchCount' = FetchCount + 1
                /\ ~dashboard'.isModalOpen
                /\ ~form'.loading
          /\ (SubmitSettled /\ ~Resolved) =>
                /\ FetchCount' = FetchCount
                /\ dashboard' = dashboard
                /\ form'.formData = form.formData
                /\ form'.errors = form.errors
                /\ IF SettledCall.unmounted
                   THEN form' = form
                   ELSE /\ dashboard.isModalOpen
                        /\ form.loading
                        /\ ~form'.loading]_vars
    /\ (form.loading ~> ~form.loading)

\* The request of a validated submission has failed and the form that sent
\* it is still waiting.
C30_Witness ==
    \E i \in DOMAIN calls :
        /\ calls[i].op \in {"post", "put"}
        /\ calls[i].answered
        /\ ~calls[i].unmounted
        /\ ~Resolved
        /\ form.loading
        /\ dashboard.isModalOpen

====
